---------------------------- MODULE Spec2Model ----------------------------
(***************************************************************************)
(* A model of the word-play vocabulary trainer: the SM-2 scheduler         *)
(* (SM2Algorithm), the local record store (ProgressTracker), the merge     *)
(* engine and the sync orchestrator (GoogleDriveSync), and the flashcard   *)
(* review handler of the UI that writes the store.                         *)
(*                                                                         *)
(* Conventions.                                                            *)
(*  - Times are integers counting ticks of TickMs milliseconds since some  *)
(*    epoch; `now` is the wall clock every `new Date()` reads.  A Date     *)
(*    survives JSON.stringify / new Date(string) unchanged (ISO strings    *)
(*    keep the milliseconds), so a stored time is the same integer.        *)
(*  - easeFactor is kept in hundredths (2.5 is 250): every adjustment of   *)
(*    SM2Algorithm is a multiple of 0.01.  Math.round is round-half-up.    *)
(*    The rational arithmetic agrees with IEEE doubles on every history    *)
(*    of at most 5 reviews.                                                *)
(*  - accuracy (correctCount / totalSeen) is the fraction in lowest terms. *)
(*  - An optional field that is absent (lastModified, syncVersion) holds   *)
(*    NoTime / NoVersion, the values JavaScript's `!x` and `x || 0` treat  *)
(*    like undefined.                                                      *)
(*  - A remote request is answered "ok" (2xx), "unauthorized" (401),       *)
(*    "failure" (another status) or "offline" (fetch rejects).  A sync     *)
(*    call runs from one awaited request to the next in one step.          *)
(*  - A document that JSON.parse rejects has valid = FALSE.                *)
(***************************************************************************)
EXTENDS Integers, Sequences, FiniteSets, TLC

VARIABLES
    now,          \* the wall clock, in ticks
    \* ---- scheduler harness (SpecSM2) ----
    card,         \* the record under review
    cardPrev,     \* the record before the last review
    cardQ,        \* the quality of the last review, NoQuality before the first
    cardGood,     \* TRUE while every review so far had quality >= 3
    cardReviews,  \* number of reviews applied to card
    \* ---- merge harness (SpecMerge) ----
    mergeLocal,   \* the local userProgress array handed to mergeUserProgress
    mergeRemote,  \* the remote userProgress array
    mergeOut,     \* [ran, merged, conflicts]: what the call returned and found
    \* ---- devices ----
    localStorage, \* per device: the documents kept under the wordplay-* keys
    \* ---- sync orchestrator ----
    drive,        \* Google Drive: the WordPlay folders and the data files in them
    calls,        \* per device and caller: the syncWithGoogleDrive call in progress
    syncs,        \* number of syncWithGoogleDrive calls started so far
    faults,       \* number of failing remote answers still allowed
    \* ---- flashcard session ----
    session,      \* per device: the state of the FlashcardSession component
    \* ---- backup (SpecStore) ----
    imported,     \* [ran, ok, before, after]: the last importData call, what it
                  \* returned and the four collections before and after it
    \* ---- conflict resolution ----
    syncConflicts, \* per device: the `conflicts` state of the SyncConflicts component
    reviewedOn    \* per device: the words rated on that device so far (history)

(***************************************************************************)
(* Bounds of the model and constants of the program.                       *)
(***************************************************************************)
TickMs == 100000
DayMs == 86400000
DayTicks == DayMs \div TickMs
MaxQuality == 5
MaxReviews == 4
MaxTime == 2
NoTime == 0
NoVersion == 0
NoQuality == 0 - 1
NoCount == 0 - 1
NoChecksum == <<>>
NoError == ""
MergeTime == 6
InitialEase == 250
MinEase == 130

Words == {"w1", "w2"}
Devices == {"A", "B"}
Quality == 0..MaxQuality

Min(a, b) == IF a <= b THEN a ELSE b
Abs(a) == IF a >= 0 THEN a ELSE 0 - a

RECURSIVE GCD(_, _)
GCD(a, b) == IF b = 0 THEN a ELSE GCD(b, a % b)

\* Math.round(n / d) for n >= 0, d > 0: round half up.
Round(n, d) == (2 * n + d) \div (2 * d)

\* correctCount / totalSeen as the double the code stores, kept exact.
Fraction(n, d) == LET g == GCD(n, d) IN [num |-> n \div g, den |-> d \div g]

(***************************************************************************)
(* SM2Algorithm                                                            *)
(***************************************************************************)
\* 0.1 - (5 - q) * (0.08 + (5 - q) * 0.02), in hundredths.
EaseDelta(quality) == 10 - (5 - quality) * (8 + (5 - quality) * 2)

\* calculateNextReview with the interval computed from the adjusted easeFactor.
calculateNextReview_lateEase(userProgress, quality, t) ==
    LET reps == userProgress.repetitions
        iv == userProgress.interval
        raised == userProgress.easeFactor + EaseDelta(quality)
        easeFactor == IF raised < MinEase THEN MinEase ELSE raised
        interval == IF quality >= 3
                    THEN IF reps = 0 THEN 1
                         ELSE IF reps = 1 THEN 6
                         ELSE Round(iv * easeFactor, 100)
                    ELSE 1
    IN  [easeFactor |-> easeFactor,
         repetitions |-> IF quality >= 3 THEN reps + 1 ELSE 0,
         interval |-> interval,
         nextReview |-> t + interval * DayTicks]

\* calculateNextReview with a lapse that resets the streak but keeps the interval.
calculateNextReview_keepInterval(userProgress, quality, t) ==
    LET ef == userProgress.easeFactor
        reps == userProgress.repetitions
        iv == userProgress.interval
        interval == IF quality >= 3
                    THEN IF reps = 0 THEN 1
                         ELSE IF reps = 1 THEN 6
                         ELSE Round(iv * ef, 100)
                    ELSE iv
        raised == ef + EaseDelta(quality)
    IN  [easeFactor |-> IF raised < MinEase THEN MinEase ELSE raised,
         repetitions |-> IF quality >= 3 THEN reps + 1 ELSE 0,
         interval |-> interval,
         nextReview |-> t + interval * DayTicks]

\* calculateNextReview without the floor of lines 25-27.
calculateNextReview_noFloor(userProgress, quality, t) ==
    LET ef == userProgress.easeFactor
        reps == userProgress.repetitions
        iv == userProgress.interval
        interval == IF quality >= 3
                    THEN IF reps = 0 THEN 1
                         ELSE IF reps = 1 THEN 6
                         ELSE Round(iv * ef, 100)
                    ELSE 1
    IN  [easeFactor |-> ef + EaseDelta(quality),
         repetitions |-> IF quality >= 3 THEN reps + 1 ELSE 0,
         interval |-> interval,
         nextReview |-> t + interval * DayTicks]

calculateNextReview(userProgress, quality, t) ==
    LET ef == userProgress.easeFactor
        reps == userProgress.repetitions
        iv == userProgress.interval
        interval == IF quality >= 3
                    THEN IF reps = 0 THEN 1
                         ELSE IF reps = 1 THEN 6
                         ELSE Round(iv * ef, 100)
                    ELSE 1
        repetitions == IF quality >= 3 THEN reps + 1 ELSE 0
        raised == ef + EaseDelta(quality)
        easeFactor == IF raised < MinEase THEN MinEase ELSE raised
    IN  [easeFactor |-> easeFactor,
         repetitions |-> repetitions,
         interval |-> interval,
         nextReview |-> t + interval * DayTicks]

initializeUserProgress(wordId, t) ==
    [wordId |-> wordId,
     easeFactor |-> InitialEase,
     repetitions |-> 0,
     interval |-> 1,
     nextReview |-> t,
     totalSeen |-> 0,
     correctCount |-> 0,
     accuracy |-> [num |-> 0, den |-> 1],
     lastReviewed |-> t,
     masteryLevel |-> 0,
     lastModified |-> NoTime,
     syncVersion |-> NoVersion]

\* updateUserProgress without the Math.min(100, ...) of line 64.
updateUserProgress_uncapped(userProgress, quality, t) ==
    LET sm2Result == calculateNextReview(userProgress, quality, t)
        totalSeen == userProgress.totalSeen + 1
        correctCount == IF quality >= 3 THEN userProgress.correctCount + 1
                        ELSE userProgress.correctCount
    IN  [userProgress EXCEPT
            !.easeFactor = sm2Result.easeFactor,
            !.repetitions = sm2Result.repetitions,
            !.interval = sm2Result.interval,
            !.nextReview = sm2Result.nextReview,
            !.totalSeen = totalSeen,
            !.correctCount = correctCount,
            !.accuracy = Fraction(correctCount, totalSeen),
            !.lastReviewed = t,
            !.masteryLevel = Round(correctCount * 10 * (10 + sm2Result.repetitions),
                                   totalSeen)]

\* updateUserProgress with the mastery computed from the repetitions the
\* record had before the review.
updateUserProgress_oldRepetitions(userProgress, quality, t) ==
    LET sm2Result == calculateNextReview(userProgress, quality, t)
        totalSeen == userProgress.totalSeen + 1
        correctCount == IF quality >= 3 THEN userProgress.correctCount + 1
                        ELSE userProgress.correctCount
    IN  [userProgress EXCEPT
            !.easeFactor = sm2Result.easeFactor,
            !.repetitions = sm2Result.repetitions,
            !.interval = sm2Result.interval,
            !.nextReview = sm2Result.nextReview,
            !.totalSeen = totalSeen,
            !.correctCount = correctCount,
            !.accuracy = Fraction(correctCount, totalSeen),
            !.lastReviewed = t,
            !.masteryLevel = Min(100, Round(correctCount * 10
                                                * (10 + userProgress.repetitions),
                                            totalSeen))]

updateUserProgress(userProgress, quality, t) ==
    LET sm2Result == calculateNextReview(userProgress, quality, t)
        totalSeen == userProgress.totalSeen + 1
        correctCount == IF quality >= 3 THEN userProgress.correctCount + 1
                        ELSE userProgress.correctCount
        \* min(100, round(accuracy * 100 * (1 + repetitions * 0.1)))
        masteryLevel == Min(100, Round(correctCount * 10 * (10 + sm2Result.repetitions),
                                       totalSeen))
    IN  [userProgress EXCEPT
            !.easeFactor = sm2Result.easeFactor,
            !.repetitions = sm2Result.repetitions,
            !.interval = sm2Result.interval,
            !.nextReview = sm2Result.nextReview,
            !.totalSeen = totalSeen,
            !.correctCount = correctCount,
            !.accuracy = Fraction(correctCount, totalSeen),
            !.lastReviewed = t,
            !.masteryLevel = masteryLevel]

(***************************************************************************)
(* GoogleDriveSync: the merge engine                                       *)
(***************************************************************************)
ConflictWindowMs == 300000

\* Position of wordId's entry in a Map kept as the sequence of its values
\* (insertion order), 0 when the key is absent.
MapIndex(m, wordId) ==
    IF \E i \in DOMAIN m : m[i].wordId = wordId
    THEN CHOOSE i \in DOMAIN m : m[i].wordId = wordId
    ELSE 0

\* Map.prototype.set: a new key is appended, an old key keeps its place.
MapSet(m, p) ==
    LET i == MapIndex(m, p.wordId)
    IN  IF i = 0 THEN Append(m, p) ELSE [m EXCEPT ![i] = p]

\* "Add lastModified if not present" (lines 308-311 and 320-323).
\* A variant that defaults lastModified and leaves the version as stored.
WithLastModified_keepVersion(progress, t) ==
    IF progress.lastModified = NoTime
    THEN [progress EXCEPT
            !.lastModified = IF progress.lastReviewed # NoTime
                             THEN progress.lastReviewed ELSE t]
    ELSE progress

WithLastModified(progress, t) ==
    IF progress.lastModified = NoTime
    THEN [progress EXCEPT
            !.lastModified = IF progress.lastReviewed # NoTime
                             THEN progress.lastReviewed ELSE t,
            !.syncVersion = 1]
    ELSE progress

RECURSIVE AddLocal(_, _, _)
\* local.forEach(progress => merged.set(progress.wordId, ...))
AddLocal(merged, local, t) ==
    IF local = <<>> THEN merged
    ELSE AddLocal(MapSet(merged, WithLastModified(Head(local), t)), Tail(local), t)

hasSignificantDifference(existing, progress) ==
    \/ existing.repetitions # progress.repetitions
    \/ existing.masteryLevel # progress.masteryLevel
    \/ existing.correctCount # progress.correctCount

\* IsConflict with the window test written >= instead of >.
IsConflict_inclusive(existing, progress) ==
    /\ existing.syncVersion # NoVersion
    /\ progress.syncVersion # NoVersion
    /\ existing.syncVersion # progress.syncVersion
    /\ Abs(existing.lastModified - progress.lastModified) * TickMs >= ConflictWindowMs
    /\ hasSignificantDifference(existing, progress)

\* The condition under which a conflict is pushed (lines 343-346).
IsConflict(existing, progress) ==
    /\ existing.syncVersion # NoVersion
    /\ progress.syncVersion # NoVersion
    /\ existing.syncVersion # progress.syncVersion
    /\ Abs(existing.lastModified - progress.lastModified) * TickMs > ConflictWindowMs
    /\ hasSignificantDifference(existing, progress)

\* RemoteWins that never lets the remote record replace the local one.
RemoteWins_keepLocal(existing, progress) == FALSE

\* RemoteWins that keeps the more advanced progress, whatever the times.
RemoteWins_moreAdvanced(existing, progress) ==
    \/ progress.repetitions > existing.repetitions
    \/ /\ progress.repetitions = existing.repetitions
       /\ progress.masteryLevel > existing.masteryLevel

\* "Use timestamp-based resolution" (lines 355-367): TRUE when the remote
\* record replaces the existing one.
RemoteWins(existing, progress) ==
    LET localTime == existing.lastModified
        remoteTime == progress.lastModified
    IN  IF remoteTime > localTime THEN TRUE
        ELSE IF remoteTime < localTime THEN FALSE
        ELSE \/ progress.repetitions > existing.repetitions
             \/ /\ progress.repetitions = existing.repetitions
                /\ progress.masteryLevel > existing.masteryLevel

\* MergeRemoteRecord that forgets a record only the remote holds.
MergeRemoteRecord_dropRemoteOnly(acc, raw, t) ==
    LET progress == WithLastModified(raw, t)
        i == MapIndex(acc.merged, progress.wordId)
    IN  IF i = 0
        THEN acc
        ELSE [merged |-> IF RemoteWins(acc.merged[i], progress)
                         THEN [acc.merged EXCEPT ![i] = progress]
                         ELSE acc.merged,
              conflicts |-> acc.conflicts]

\* The body of remote.forEach for one remote record; acc = [merged, conflicts].
MergeRemoteRecord(acc, raw, t) ==
    LET progress == WithLastModified(raw, t)
        i == MapIndex(acc.merged, progress.wordId)
    IN  IF i = 0
        THEN [acc EXCEPT !.merged = Append(acc.merged, progress)]
        ELSE LET existing == acc.merged[i]
                 conflicts ==
                    IF IsConflict(existing, progress)
                    THEN Append(acc.conflicts,
                                [wordId |-> progress.wordId,
                                 localData |-> existing,
                                 remoteData |-> progress,
                                 conflictType |-> "both-modified"])
                    ELSE acc.conflicts
             IN  [merged |-> IF RemoteWins(existing, progress)
                             THEN [acc.merged EXCEPT ![i] = progress]
                             ELSE acc.merged,
                  conflicts |-> conflicts]

RECURSIVE MergeRemote(_, _, _)
MergeRemote(acc, remote, t) ==
    IF remote = <<>> THEN acc
    ELSE MergeRemote(MergeRemoteRecord(acc, Head(remote), t), Tail(remote), t)

\* "Increment sync version" and restamp, for every record returned (379-385).
\* A variant that counts the version up and keeps the time.
Restamp_keepTime(p, t) == [p EXCEPT !.syncVersion = p.syncVersion + 1]

Restamp(p, t) ==
    [p EXCEPT !.syncVersion = p.syncVersion + 1, !.lastModified = t]

\* mergeUserProgress without its write of the sync status: the array it
\* returns and the conflicts it found.
mergeUserProgress(local, remote, t) ==
    LET acc == MergeRemote([merged |-> AddLocal(<<>>, local, t), conflicts |-> <<>>],
                           remote, t)
    IN  [merged |-> [i \in DOMAIN acc.merged |-> Restamp(acc.merged[i], t)],
         conflicts |-> acc.conflicts]

(***************************************************************************)
(* The documents a device keeps in localStorage.                           *)
(***************************************************************************)
\* getSyncStatus() when nothing is stored (lines 463-465); an absent
\* conflicts list reads as the empty list.
EmptyStatus ==
    [lastSyncTime |-> NoTime, isSyncing |-> FALSE, error |-> NoError,
     conflicts |-> <<>>, recordCount |-> NoCount, checksum |-> NoChecksum]

\* getSyncMetadata() is null: syncVersion reads as 0 (line 75).
NoMetadata ==
    [lastSyncTime |-> NoTime, dataChecksum |-> NoChecksum, recordCount |-> NoCount,
     deviceId |-> "", syncVersion |-> 0]

EmptyStorage ==
    [userProgress |-> <<>>, testResults |-> <<>>, flashcardSessions |-> <<>>,
     testSessions |-> <<>>, syncStatus |-> EmptyStatus, syncMetadata |-> NoMetadata,
     user |-> TRUE]

getSyncStatus(d) == localStorage[d].syncStatus

\* Lines 371-376: the conflicts found are stored in the sync status, only
\* when there are any.
StoreConflicts(ls, conflicts) ==
    IF Len(conflicts) > 0
    THEN [ls EXCEPT !.syncStatus.conflicts = conflicts]
    ELSE ls

(***************************************************************************)
(* ProgressTracker: export and import                                      *)
(***************************************************************************)
CollectionNames == {"userProgress", "testResults", "flashcardSessions", "testSessions"}

\* The four collections of a device's store.
Collections(ls) == [k \in CollectionNames |-> ls[k]]

\* A document that JSON.parse rejects; also the placeholder of "no document".
NoDoc ==
    [valid |-> FALSE, userProgress |-> <<>>, testResults |-> <<>>,
     flashcardSessions |-> <<>>, testSessions |-> <<>>, exportDate |-> NoTime,
     syncMetadata |-> NoMetadata]

\* JSON null, the Date `new Date(undefined)` gives, and the Date
\* `new Date(null)` gives (1 January 1970, before every time of the model).
NullJSON == 0 - 1
InvalidDate == 0 - 2
UnixEpoch == 0 - 3

\* new Date(value) of a stored value: an ISO string, null, or nothing.
NewDate(value) ==
    IF value = NullJSON THEN UnixEpoch
    ELSE IF value = NoTime THEN InvalidDate
    ELSE value

\* Date.prototype.toJSON, which JSON.stringify calls: the ISO string, null
\* for an invalid date.
DateToJSON(date) == IF date = InvalidDate THEN NullJSON ELSE date

\* p => ({...p, field: new Date(p.field)}) for the fields named.
Revive(item, fields) ==
    [f \in DOMAIN item |-> IF f \in fields THEN NewDate(item[f]) ELSE item[f]]

\* s.endTime ? new Date(s.endTime) : undefined
ReviveSession_noEndTime(item) ==
    [f \in DOMAIN item |->
        IF f = "startTime" THEN NewDate(item[f])
        ELSE IF f = "endTime" THEN NoTime
        ELSE item[f]]

ReviveSession(item) ==
    [f \in DOMAIN item |->
        IF f = "startTime" THEN NewDate(item[f])
        ELSE IF f = "endTime"
             THEN IF item[f] \in {NoTime, NullJSON} THEN NoTime ELSE NewDate(item[f])
             ELSE item[f]]

\* JSON.stringify of an item whose named fields hold Dates.
Stringify(item, fields) ==
    [f \in DOMAIN item |-> IF f \in fields /\ item[f] # NoTime THEN DateToJSON(item[f])
                           ELSE item[f]]

\* The getters of ProgressTracker.
getUserProgress(ls) ==
    [i \in DOMAIN ls.userProgress |->
        Revive(ls.userProgress[i], {"nextReview", "lastReviewed"})]

getTestResults(ls) ==
    [i \in DOMAIN ls.testResults |-> Revive(ls.testResults[i], {"timestamp"})]

getFlashcardSessions(ls) ==
    [i \in DOMAIN ls.flashcardSessions |-> ReviveSession(ls.flashcardSessions[i])]

getTestSessions(ls) ==
    [i \in DOMAIN ls.testSessions |-> ReviveSession(ls.testSessions[i])]

\* What the program reads of a store: the four collections through their
\* getters.
Stored(ls) ==
    [userProgress |-> getUserProgress(ls), testResults |-> getTestResults(ls),
     flashcardSessions |-> getFlashcardSessions(ls),
     testSessions |-> getTestSessions(ls)]

\* exportData(): JSON.stringify of what the four getters return and of the
\* export date.
exportData(ls, t) ==
    LET DateFields == {"nextReview", "lastReviewed", "lastModified", "timestamp",
                       "startTime", "endTime"}
        Text(arr) == [i \in DOMAIN arr |-> Stringify(arr[i], DateFields)]
    IN  [valid |-> TRUE,
         userProgress |-> Text(getUserProgress(ls)),
         testResults |-> Text(getTestResults(ls)),
         flashcardSessions |-> Text(getFlashcardSessions(ls)),
         testSessions |-> Text(getTestSessions(ls)),
         exportDate |-> t, syncMetadata |-> NoMetadata]

\* importData(jsonData): each collection the document holds replaces the
\* stored one (every array is truthy, an empty one too); a document that
\* does not parse changes nothing.  The value returned is doc.valid.
importData(ls, doc) ==
    IF doc.valid
    THEN [ls EXCEPT !.userProgress = doc.userProgress,
                    !.testResults = doc.testResults,
                    !.flashcardSessions = doc.flashcardSessions,
                    !.testSessions = doc.testSessions]
    ELSE ls

(***************************************************************************)
(* GoogleDriveSync: checksum, merge of the logs                            *)
(***************************************************************************)
RECURSIVE Flatten(_)
Flatten(seqs) == IF seqs = <<>> THEN <<>> ELSE Head(seqs) \o Flatten(Tail(seqs))

\* The numbers of an exported document in the order JSON.stringify writes
\* them, standing for the characters of the string.
Encode(doc) ==
    Flatten([i \in DOMAIN doc.userProgress |->
                LET p == doc.userProgress[i]
                IN  <<p.easeFactor, p.repetitions, p.interval, p.nextReview,
                      p.totalSeen, p.correctCount, p.accuracy.num, p.accuracy.den,
                      p.lastReviewed, p.masteryLevel, p.lastModified, p.syncVersion>>])
    \o [i \in DOMAIN doc.testResults |-> doc.testResults[i].timestamp]
    \o [i \in DOMAIN doc.flashcardSessions |-> doc.flashcardSessions[i].id]
    \o [i \in DOMAIN doc.testSessions |-> doc.testSessions[i].id]
    \o <<doc.exportDate>>

\* A 32-bit hash is kept as its two 16-bit halves <<hi, lo>>, so that no
\* product leaves the range of the checker's integers.
Half == 65536

\* hash = ((hash << 5) - hash) + char; hash = hash & hash, which is
\* 31 * hash + char modulo 2^32.
HashStep(hash, char) ==
    LET lo == hash[2] * 31 + char
        hi == hash[1] * 31 + (lo \div Half)
    IN  <<hi % Half, lo % Half>>

RECURSIVE RollingHash(_, _)
RollingHash(hash, chars) ==
    IF chars = <<>> THEN hash
    ELSE RollingHash(HashStep(hash, Head(chars)), Tail(chars))

\* Math.abs of the hash read as a signed 32-bit integer.
AbsInt32(hash) ==
    IF hash[1] < Half \div 2 THEN hash
    ELSE IF hash[2] = 0 THEN <<Half - hash[1], 0>>
    ELSE <<Half - 1 - hash[1], Half - hash[2]>>

\* calculateChecksum(data): the digits of Math.abs(hash).toString(36), as
\* the two halves of the number.
calculateChecksum(doc) == AbsInt32(RollingHash(<<0, 0>>, Encode(doc)))

NoId == 0

\* item.id || item.timestamp || JSON.stringify(item)
ItemKey(item) ==
    IF "id" \in DOMAIN item /\ item.id # NoId THEN [kind |-> "id", val |-> item.id]
    ELSE IF "timestamp" \in DOMAIN item /\ item.timestamp # NoTime
         THEN [kind |-> "timestamp", val |-> item.timestamp]
         ELSE [kind |-> "json", val |-> item]

RECURSIVE SetAll(_, _)
\* forEach(item => merged.set(key, item)) on a Map kept as <<keys, values>>.
SetAll(merged, items) ==
    IF items = <<>> THEN merged
    ELSE LET item == Head(items)
             key == ItemKey(item)
             at == {i \in DOMAIN merged : ItemKey(merged[i]) = key}
         IN  SetAll(IF at = {} THEN Append(merged, item)
                    ELSE [merged EXCEPT ![CHOOSE i \in at : TRUE] = item],
                    Tail(items))

mergeArraysByTimestamp(local, remote) == SetAll(<<>>, local \o remote)

(***************************************************************************)
(* GoogleDriveSync: the sync orchestrator.                                 *)
(*                                                                         *)
(* A call of syncWithGoogleDrive runs from one await of a remote request   *)
(* to the next in one step.  x = [d, ls, dr, c, t] is what such a run      *)
(* reads and writes: the device, its localStorage, the drive, the call's   *)
(* own record and the time.                                                *)
(***************************************************************************)
Callers == {"auto", "manual"}
Strategies == {"upload", "download", "merge"}
MaxSyncs == 2
MaxFaults == 1
SessionExpiredMsg == "Session expired. Please login again."
DriveExpiredMsg == "Google Drive session expired. Please sign in again to use sync features."
NotSignedInMsg == "Not authenticated with Google Drive. Please sign in to use sync features."
NotAuthenticatedMsg == "Not authenticated"
NetworkMsg == "Failed to fetch"
DownloadFailedMsg == "Google Drive download failed"
UploadFailedMsg == "Google Drive upload failed"
ParseMsg == "Unexpected token in JSON"

IdleCall ==
    [pc |-> "idle", strategy |-> "none", fn |-> "none", folderId |-> NoId,
     fileId |-> NoId, data |-> NoDoc, error |-> NoError,
     \* what the call saw and did, kept for the claims
     before |-> Collections(EmptyStorage), filesBefore |-> 0, merged |-> FALSE,
     found |-> <<>>, requests |-> 0, unauthorizedAt |-> 0, clean |-> TRUE,
     conflictsBefore |-> <<>>]

InFlight(c) == c.pc \notin {"idle", "done", "failed"}

\* updateSyncStatus of the two catch blocks (lines 157-160, 203-206).
ErrorStatus(msg) == [EmptyStatus EXCEPT !.error = msg]

\* The finally block of syncWithGoogleDrive (lines 222-225) and the end of
\* the call: pc is "done" when the promise resolves, "failed" when it rejects.
Finally(x, pc, msg) ==
    [x EXCEPT !.ls.syncStatus.isSyncing = FALSE, !.c.pc = pc, !.c.error = msg]

\* An exception thrown while x.c.fn runs: uploadToGoogleDrive and
\* downloadFromGoogleDrive store the message in the sync status and rethrow;
\* mergeData only rethrows (lines 296-298).
Throw(x, msg) ==
    Finally(IF x.c.fn \in {"uploadToGoogleDrive", "downloadFromGoogleDrive"}
            THEN [x EXCEPT !.ls.syncStatus = ErrorStatus(msg)]
            ELSE x,
            "failed", msg)

\* The call sends a request and awaits the answer.
Await(x, pc) == [x EXCEPT !.c.pc = pc, !.c.requests = @ + 1]

\* getOrCreateFolder up to its search request (lines 400-412).
getOrCreateFolder(x) ==
    IF ~x.ls.user THEN Throw(x, NotSignedInMsg) ELSE Await(x, "folder")

\* getFileId up to its request (lines 444-455).
getFileId(x) ==
    IF ~x.ls.user THEN Throw(x, NotAuthenticatedMsg) ELSE Await(x, "file")

\* uploadToGoogleDrive, lines 66-81: the export and its metadata.
Capture(x) ==
    LET data == exportData(x.ls, x.t)
        metadata == [lastSyncTime |-> x.t,
                     dataChecksum |-> calculateChecksum(data),
                     recordCount |-> Len(data.userProgress),
                     deviceId |-> x.d,
                     syncVersion |-> x.ls.syncMetadata.syncVersion + 1]
    IN  [x EXCEPT !.c.data = [data EXCEPT !.syncMetadata = metadata]]

\* What follows refreshTokenIfNeeded in uploadToGoogleDrive (66-83) and in
\* downloadFromGoogleDrive (168).
AfterRefresh(x) ==
    IF x.c.fn = "uploadToGoogleDrive" THEN getOrCreateFolder(Capture(x))
    ELSE getOrCreateFolder(x)

\* Entry of uploadToGoogleDrive or downloadFromGoogleDrive:
\* refreshTokenIfNeeded sends its request only when a user is stored
\* (lines 168-170 of GoogleAuth).
EnterFn(x, fn) ==
    LET x1 == [x EXCEPT !.c.fn = fn]
    IN  IF x1.ls.user THEN Await(x1, "refresh") ELSE AfterRefresh(x1)

\* refreshTokenIfNeeded: only a rejected fetch logs out and throws; the
\* status of the answer is not read.
OnRefresh(x, r) ==
    IF r = "offline"
    THEN Throw([x EXCEPT !.ls.user = FALSE], SessionExpiredMsg)
    ELSE AfterRefresh(x)

\* getOrCreateFolder after the search (lines 414-425); f is the folder the
\* answer lists first, NoId when it lists none.
OnFolder(x, r, f) ==
    IF r = "offline" THEN Throw(x, NetworkMsg)
    ELSE IF r = "unauthorized" THEN Throw(x, DriveExpiredMsg)
    ELSE IF r = "ok" /\ f # NoId THEN getFileId([x EXCEPT !.c.folderId = f])
    ELSE Await(x, "mkdir")

\* getOrCreateFolder after the create request (lines 440-441).
OnMkdir(x, r) ==
    IF r = "offline" THEN Throw(x, NetworkMsg)
    ELSE getFileId([x EXCEPT !.dr.folders = @ + 1, !.c.folderId = x.dr.folders + 1])

\* AfterFileId with a mergeData that ends when it finds no remote file,
\* without the upload of line 235.
AfterFileId_noUpload(x) ==
    IF x.c.fn = "uploadToGoogleDrive"
    THEN IF ~x.ls.user THEN Throw(x, NotAuthenticatedMsg) ELSE Await(x, "put")
    ELSE IF x.c.fileId = NoId
         THEN Finally(x, "done", NoError)
         ELSE IF ~x.ls.user THEN Throw(x, NotAuthenticatedMsg)
              ELSE Await(x, "download")

\* What the three callers of getFileId do with its result.
AfterFileId(x) ==
    IF x.c.fn = "uploadToGoogleDrive"
    THEN IF ~x.ls.user THEN Throw(x, NotAuthenticatedMsg) ELSE Await(x, "put")
    ELSE IF x.c.fileId = NoId
         THEN IF x.c.fn = "downloadFromGoogleDrive"
              THEN Finally(x, "done", NoError)
              ELSE EnterFn(x, "uploadToGoogleDrive")
         ELSE IF ~x.ls.user THEN Throw(x, NotAuthenticatedMsg)
              ELSE Await(x, "download")

\* getFileId after its request (lines 457-458): the status is not read, an
\* answer without a files list gives null; f is the file listed first.
OnFile(x, r, f) ==
    IF r = "offline" THEN Throw(x, NetworkMsg)
    ELSE AfterFileId([x EXCEPT !.c.fileId = IF r = "ok" THEN f ELSE NoId])

\* mergeData from the parsed remote document to the upload (lines 259-295).
MergeAndImport(x, remoteData) ==
    LET localData == exportData(x.ls, x.t)
        mergedProgress == mergeUserProgress(localData.userProgress,
                                            remoteData.userProgress, x.t)
        mergedData ==
            [valid |-> TRUE,
             userProgress |-> mergedProgress.merged,
             testResults |-> mergeArraysByTimestamp(localData.testResults,
                                                    remoteData.testResults),
             flashcardSessions |-> mergeArraysByTimestamp(localData.flashcardSessions,
                                                          remoteData.flashcardSessions),
             testSessions |-> mergeArraysByTimestamp(localData.testSessions,
                                                     remoteData.testSessions),
             exportDate |-> x.t,
             syncMetadata |-> NoMetadata]
        ls1 == StoreConflicts(x.ls, mergedProgress.conflicts)
    IN  EnterFn([x EXCEPT !.ls = importData(ls1, mergedData),
                          !.c.merged = TRUE,
                          !.c.found = mergedProgress.conflicts],
                "uploadToGoogleDrive")

\* The answer to the download request, in downloadFromGoogleDrive (188-202)
\* and in mergeData (252-259).
OnDownload(x, r) ==
    LET content == x.dr.files[x.c.fileId].content
    IN  IF r = "offline" THEN Throw(x, NetworkMsg)
        ELSE IF r = "unauthorized" THEN Throw(x, DriveExpiredMsg)
        ELSE IF r = "failure" THEN Throw(x, DownloadFailedMsg)
        ELSE IF x.c.fn = "downloadFromGoogleDrive"
             THEN IF content.valid
                  THEN Finally([x EXCEPT
                                  !.ls = [importData(x.ls, content) EXCEPT
                                            !.syncStatus =
                                                [EmptyStatus EXCEPT !.lastSyncTime = x.t]]],
                               "done", NoError)
                  ELSE Finally(x, "done", NoError)
             ELSE IF content.valid
                  THEN MergeAndImport(x, content)
                  ELSE Throw(x, ParseMsg)

\* The answer to the PATCH or POST of uploadToGoogleDrive (lines 136-156).
OnPut(x, r) ==
    IF r = "offline" THEN Throw(x, NetworkMsg)
    ELSE IF r = "unauthorized" THEN Throw(x, DriveExpiredMsg)
    ELSE IF r = "failure" THEN Throw(x, UploadFailedMsg)
    ELSE LET files == IF x.c.fileId # NoId
                      THEN [x.dr.files EXCEPT ![x.c.fileId].content = x.c.data]
                      ELSE Append(x.dr.files,
                                  [parent |-> x.c.folderId, content |-> x.c.data])
             metadata == x.c.data.syncMetadata
         IN  Finally([x EXCEPT
                        !.dr.files = files,
                        !.ls.syncMetadata = metadata,
                        !.ls.syncStatus =
                            [EmptyStatus EXCEPT
                                !.lastSyncTime = x.t,
                                !.recordCount = metadata.recordCount,
                                !.checksum = metadata.dataChecksum]],
                     "done", NoError)

\* syncWithGoogleDrive(strategy) up to its first request (lines 210-221).
Begin(x, strategy) ==
    LET x1 == [x EXCEPT !.ls.syncStatus = [EmptyStatus EXCEPT !.isSyncing = TRUE]]
    IN  IF strategy = "upload" THEN EnterFn(x1, "uploadToGoogleDrive")
        ELSE IF strategy = "download" THEN EnterFn(x1, "downloadFromGoogleDrive")
        ELSE getOrCreateFolder([x1 EXCEPT !.c.fn = "mergeData"])

(***************************************************************************)
(* Actions of the orchestrator                                             *)
(***************************************************************************)
Ctx(d, c) == [d |-> d, ls |-> localStorage[d], dr |-> drive, c |-> calls[d][c], t |-> now]

\* For the claims: the number of requests the call had sent when it first
\* got a 401 answer.
Noted(x, r, sent) ==
    IF r = "unauthorized" /\ x.c.unauthorizedAt = 0
    THEN [x EXCEPT !.c.unauthorizedAt = sent]
    ELSE x

Commit(d, c, x) ==
    /\ localStorage' = [localStorage EXCEPT ![d] = x.ls]
    /\ drive' = x.dr
    /\ calls' = [calls EXCEPT ![d][c] = x.c]

\* A remote answer: ok always, a failing one while the budget lasts.
Answers(kinds) == {r \in kinds : r = "ok" \/ faults > 0}
Spend(r) == faults' = IF r = "ok" THEN faults ELSE faults - 1

\* A caller (the auto-sync callback of App, or the user) calls
\* syncWithGoogleDrive(strategy).  Nothing in the function looks at a call
\* already in progress.
StartSync(d, c, strategy) ==
    /\ ~InFlight(calls[d][c])
    /\ c = "auto" => strategy = "merge"
    /\ LET fresh == [IdleCall EXCEPT
                        !.strategy = strategy,
                        !.before = Collections(localStorage[d]),
                        !.filesBefore = Len(drive.files),
                        !.conflictsBefore = getSyncStatus(d).conflicts,
                        !.clean = \A k \in Callers \ {c} : ~InFlight(calls[d][k])]
           x == Begin([Ctx(d, c) EXCEPT !.c = fresh], strategy)
       IN  /\ localStorage' = [localStorage EXCEPT ![d] = x.ls]
           /\ drive' = x.dr
           /\ calls' = [calls EXCEPT ![d] =
                          [k \in Callers |->
                              IF k = c THEN x.c ELSE [calls[d][k] EXCEPT !.clean = FALSE]]]
    /\ syncs' = syncs + 1
    /\ UNCHANGED <<now, faults, session>>

RefreshResponse(d, c) ==
    /\ calls[d][c].pc = "refresh"
    /\ \E r \in Answers({"ok", "unauthorized", "failure", "offline"}) :
        /\ Commit(d, c, Noted(OnRefresh(Ctx(d, c), r), r, calls[d][c].requests))
        /\ Spend(r)
    /\ UNCHANGED <<now, syncs, session>>

FolderResponse(d, c) ==
    /\ calls[d][c].pc = "folder"
    /\ \E r \in Answers({"ok", "unauthorized", "failure", "offline"}) :
        /\ \E f \in IF r = "ok" /\ drive.folders > 0 THEN 1..drive.folders ELSE {NoId} :
              Commit(d, c, Noted(OnFolder(Ctx(d, c), r, f), r, calls[d][c].requests))
        /\ Spend(r)
    /\ UNCHANGED <<now, syncs, session>>

\* Only the network failure of the create request is modelled: the code
\* reads no status there.
MkdirResponse(d, c) ==
    /\ calls[d][c].pc = "mkdir"
    /\ \E r \in Answers({"ok", "offline"}) :
        /\ Commit(d, c, Noted(OnMkdir(Ctx(d, c), r), r, calls[d][c].requests))
        /\ Spend(r)
    /\ UNCHANGED <<now, syncs, session>>

FilesIn(folderId) == {i \in DOMAIN drive.files : drive.files[i].parent = folderId}

FileResponse(d, c) ==
    /\ calls[d][c].pc = "file"
    /\ \E r \in Answers({"ok", "unauthorized", "failure", "offline"}) :
        /\ \E f \in IF r = "ok" /\ FilesIn(calls[d][c].folderId) # {}
                   THEN FilesIn(calls[d][c].folderId) ELSE {NoId} :
              Commit(d, c, Noted(OnFile(Ctx(d, c), r, f), r, calls[d][c].requests))
        /\ Spend(r)
    /\ UNCHANGED <<now, syncs, session>>

DownloadResponse(d, c) ==
    /\ calls[d][c].pc = "download"
    /\ \E r \in Answers({"ok", "unauthorized", "failure", "offline"}) :
        /\ Commit(d, c, Noted(OnDownload(Ctx(d, c), r), r, calls[d][c].requests))
        /\ Spend(r)
    /\ UNCHANGED <<now, syncs, session>>

PutResponse(d, c) ==
    /\ calls[d][c].pc = "put"
    /\ \E r \in Answers({"ok", "unauthorized", "failure", "offline"}) :
        /\ Commit(d, c, Noted(OnPut(Ctx(d, c), r), r, calls[d][c].requests))
        /\ Spend(r)
    /\ UNCHANGED <<now, syncs, session>>

(***************************************************************************)
(* FlashcardSession: a session of cards and the rating of a card           *)
(***************************************************************************)
SessionCards == 2
MaxSessions == 1
SessionQualities == {1, 4}

\* No session: the component is not mounted or has shown its last card.
NoSession ==
    [open |-> FALSE, id |-> NoId, startTime |-> NoTime, currentIndex |-> 0,
     cardsStudied |-> 0, correctAnswers |-> 0, totalTime |-> 0, cardStart |-> NoTime]

\* Array.prototype.findIndex on a key: the first index, 0 when there is none.
FindIndex(arr, key, val) ==
    LET at == {i \in DOMAIN arr : arr[i][key] = val}
    IN  IF at = {} THEN 0 ELSE CHOOSE i \in at : \A j \in at : i <= j

\* ProgressTracker.updateWordProgress(wordProgress)
updateWordProgress(ls, wordProgress) ==
    LET existingIndex == FindIndex(ls.userProgress, "wordId", wordProgress.wordId)
    IN  [ls EXCEPT !.userProgress =
            IF existingIndex > 0 THEN [@ EXCEPT ![existingIndex] = wordProgress]
            ELSE Append(@, wordProgress)]

\* ProgressTracker.saveTestResult(result)
saveTestResult(ls, result) == [ls EXCEPT !.testResults = Append(@, result)]

\* ProgressTracker.saveFlashcardSession(session)
saveFlashcardSession(ls, s) ==
    LET existingIndex == FindIndex(ls.flashcardSessions, "id", s.id)
    IN  [ls EXCEPT !.flashcardSessions =
            IF existingIndex > 0 THEN [@ EXCEPT ![existingIndex] = s]
            ELSE Append(@, s)]

\* initializeSession(): the component's state when a session opens at time t.
\* initializeSession(): the component's state when a new session
\* `session-${Date.now()}` of SessionCards cards opens at time t.
initializeSession(t) ==
    [NoSession EXCEPT !.open = TRUE, !.id = t, !.startTime = t, !.cardStart = t]

\* The user opens a flashcard session.
StartSession(d) ==
    /\ ~session[d].open
    /\ Len(localStorage[d].flashcardSessions) < MaxSessions
    /\ \A i \in DOMAIN localStorage[d].flashcardSessions :
          localStorage[d].flashcardSessions[i].id # now
    /\ session' = [session EXCEPT ![d] = initializeSession(now)]
    /\ UNCHANGED <<now, localStorage>>

\* handleQualitySelect(quality) on the card of word wordId at time t, with the
\* stored documents ls and the component state ss: what it stores and the
\* component state it leaves.
handleQualitySelect(ls, ss, wordId, quality, t) ==
    LET timeSpent == (t - ss.cardStart) * TickMs
        at == FindIndex(ls.userProgress, "wordId", wordId)
        userProgress == IF at = 0 THEN initializeUserProgress(wordId, t)
                        ELSE ls.userProgress[at]
        updatedProgress == updateUserProgress(userProgress, quality, t)
        testResult == [testType |-> "flashcard", wordId |-> wordId,
                       correct |-> quality >= 3, timeSpent |-> timeSpent,
                       timestamp |-> t, quality |-> quality]
        cardsStudied == ss.cardsStudied + 1
        correctAnswers == ss.correctAnswers + (IF quality >= 3 THEN 1 ELSE 0)
        totalTime == ss.totalTime + timeSpent
        last == ss.currentIndex = SessionCards - 1
        updatedSession == [id |-> ss.id, startTime |-> ss.startTime,
                           endTime |-> IF last THEN t ELSE NoTime,
                           cardsStudied |-> cardsStudied,
                           correctAnswers |-> correctAnswers,
                           averageTime |-> Fraction(totalTime, cardsStudied)]
    IN  [ls |-> saveFlashcardSession(
                    saveTestResult(updateWordProgress(ls, updatedProgress), testResult),
                    updatedSession),
         ss |-> IF last THEN NoSession
                ELSE [ss EXCEPT !.cardsStudied = cardsStudied,
                                !.correctAnswers = correctAnswers,
                                !.totalTime = totalTime,
                                !.cardStart = t,
                                !.currentIndex = @ + 1]]

\* The user rates the card of word wordId.
Review(d, wordId, quality) ==
    /\ session[d].open
    /\ LET done == handleQualitySelect(localStorage[d], session[d], wordId, quality, now)
       IN  /\ localStorage' = [localStorage EXCEPT ![d] = done.ls]
           /\ session' = [session EXCEPT ![d] = done.ss]
    /\ reviewedOn' = [reviewedOn EXCEPT ![d] = @ \cup {wordId}]
    /\ UNCHANGED now

InitSessionIdle == session = [d \in Devices |-> NoSession]

(***************************************************************************)
(* Settings: a backup exported and imported at once                        *)
(***************************************************************************)
NotImported ==
    [ran |-> FALSE, ok |-> FALSE, before |-> Collections(EmptyStorage),
     after |-> Collections(EmptyStorage)]

InitImportIdle ==
    /\ imported = NotImported
    /\ syncConflicts = [d \in Devices |-> <<>>]
    /\ reviewedOn = [d \in Devices |-> {}]

\* ProgressTracker.importData(ProgressTracker.exportData())
ExportImport(d) ==
    LET jsonData == exportData(localStorage[d], now)
    IN  /\ localStorage' = [localStorage EXCEPT ![d] = importData(@, jsonData)]
        /\ imported' = [ran |-> TRUE, ok |-> jsonData.valid,
                        before |-> Collections(localStorage[d]),
                        after |-> Collections(importData(localStorage[d], jsonData))]
        /\ UNCHANGED <<now, session>>

syncvars == <<drive, calls, syncs, faults>>

InitSyncIdle ==
    /\ drive = [folders |-> 0, files |-> <<>>]
    /\ calls = [d \in Devices |-> [c \in Callers |-> IdleCall]]
    /\ syncs = 0
    /\ faults = 0

(***************************************************************************)
(* SpecMerge: mergeUserProgress applied to bounded local and remote arrays.*)
(***************************************************************************)
RECURSIVE Reviewed(_, _, _)
\* The record after the reviews of qualities qs, all at time t.
Reviewed(progress, qs, t) ==
    IF qs = <<>> THEN progress
    ELSE Reviewed(updateUserProgress(progress, Head(qs), t), Tail(qs), t)

\* Review histories whose records differ pairwise in chosen fields:
\* <<5>> and <<2, 4>> in masteryLevel only, <<2, 4>> and <<1, 4, 1, 4>> in
\* correctCount only, <<5>> and <<5, 5>> in repetitions and correctCount.
MergeHistories == {<<5>>, <<2, 4>>, <<5, 5>>, <<1, 4, 1, 4>>}

\* lastReviewed, lastModified, syncVersion of an input record: never synced,
\* synced, reviewed after a sync, and carrying a lastModified but no version.
MergeStamps ==
    {[lr |-> 1, lm |-> NoTime, sv |-> NoVersion],
     [lr |-> 5, lm |-> NoTime, sv |-> NoVersion],
     [lr |-> 1, lm |-> 1, sv |-> 1],
     [lr |-> 1, lm |-> 2, sv |-> 2],
     [lr |-> 1, lm |-> 4, sv |-> 2],
     [lr |-> 1, lm |-> 5, sv |-> 1],
     [lr |-> 5, lm |-> 1, sv |-> 2],
     [lr |-> 1, lm |-> 5, sv |-> NoVersion]}

Stamped(wordId, qs, st) ==
    [Reviewed(initializeUserProgress(wordId, st.lr), qs, st.lr) EXCEPT
        !.lastModified = st.lm, !.syncVersion = st.sv]

MergeRecords(wordId) ==
    IF wordId = "w1"
    THEN {Stamped(wordId, qs, st) : qs \in MergeHistories, st \in MergeStamps}
    ELSE {Stamped(wordId, <<5>>, [lr |-> 1, lm |-> NoTime, sv |-> NoVersion]),
          Stamped(wordId, <<5, 5>>, [lr |-> 5, lm |-> 5, sv |-> 2])}

AtMostOne(S) == {<<>>} \cup {<<r>> : r \in S}

\* Arrays with at most one record per word, in either order.
MergeInputs ==
    LET one == AtMostOne(MergeRecords("w1"))
        two == AtMostOne(MergeRecords("w2"))
    IN  {a \o b : a \in one, b \in two} \cup {b \o a : a \in one, b \in two}

NoMergeOut == [ran |-> FALSE, merged |-> <<>>, conflicts |-> <<>>]

InitMergeIdle ==
    /\ mergeLocal = <<>>
    /\ mergeRemote = <<>>
    /\ mergeOut = NoMergeOut

InitDevicesIdle ==
    localStorage = [d \in Devices |-> EmptyStorage]

mergevars == <<mergeLocal, mergeRemote, mergeOut>>

\* One call of mergeUserProgress(local, remote) on device A.
CallMerge ==
    /\ ~mergeOut.ran
    /\ LET r == mergeUserProgress(mergeLocal, mergeRemote, now)
       IN  /\ mergeOut' = [ran |-> TRUE, merged |-> r.merged, conflicts |-> r.conflicts]
           /\ localStorage' =
                [localStorage EXCEPT !["A"] = StoreConflicts(@, r.conflicts)]
    /\ UNCHANGED <<mergeLocal, mergeRemote>>

(***************************************************************************)
(* SpecSM2: the scheduler applied to one record, review after review.      *)
(***************************************************************************)
sm2vars == <<card, cardPrev, cardQ, cardGood, cardReviews>>

InitCard ==
    /\ card = initializeUserProgress("w1", now)
    /\ cardPrev = card
    /\ cardQ = NoQuality
    /\ cardGood = TRUE
    /\ cardReviews = 0

\* The clock advances.
Tick ==
    /\ now < MaxTime
    /\ now' = now + 1

\* One press of a quality button on the card.
ReviewCard ==
    /\ cardReviews < MaxReviews
    /\ \E quality \in Quality :
        /\ card' = updateUserProgress(card, quality, now)
        /\ cardQ' = quality
        /\ cardGood' = (cardGood /\ quality >= 3)
    /\ cardPrev' = card
    /\ cardReviews' = cardReviews + 1

vars == <<now, card, cardPrev, cardQ, cardGood, cardReviews,
          mergeLocal, mergeRemote, mergeOut, localStorage,
          drive, calls, syncs, faults, session, imported,
          syncConflicts, reviewedOn>>

InitSM2 ==
    /\ now = 1
    /\ InitCard
    /\ InitMergeIdle
    /\ InitDevicesIdle
    /\ InitSyncIdle
    /\ InitSessionIdle
    /\ InitImportIdle

NextSM2 ==
    \/ ReviewCard /\ UNCHANGED <<now, mergevars, localStorage, syncvars, session, imported, syncConflicts, reviewedOn>>
    \/ Tick /\ UNCHANGED <<sm2vars, mergevars, imported, syncConflicts, reviewedOn, localStorage, syncvars, session>>

SpecSM2 == InitSM2 /\ [][NextSM2]_vars

InitMerge ==
    /\ now = MergeTime
    /\ InitCard
    /\ mergeLocal \in MergeInputs
    /\ mergeRemote \in MergeInputs
    /\ mergeOut = NoMergeOut
    /\ InitDevicesIdle
    /\ InitSyncIdle
    /\ InitSessionIdle
    /\ InitImportIdle

NextMerge == CallMerge /\ UNCHANGED <<now, sm2vars, syncvars, session, imported, syncConflicts, reviewedOn>>

SpecMerge == InitMerge /\ [][NextMerge]_vars

(***************************************************************************)
(* Spec: the sync orchestrator on device A.  The auto-sync callback and    *)
(* the user call syncWithGoogleDrive; the remote answers each request, and *)
(* at most MaxFaults answers are failures.  The store of A and the drive   *)
(* start in states earlier reviews and syncs have left.                    *)
(***************************************************************************)
\* A record of wordId after reviews of qualities qs at time t, never synced.
Unsynced(wordId, qs, t) == Reviewed(initializeUserProgress(wordId, t), qs, t)

\* The flashcard test result of a review.
ResultOf(wordId, quality, t) ==
    [testType |-> "flashcard", wordId |-> wordId, correct |-> quality >= 3,
     timeSpent |-> 0, timestamp |-> t, quality |-> quality]

\* Device A reviewed w1 at time 1 (quality 5), merged at time 1 with a remote
\* copy, and reviewed w1 again at time 5 (quality 5).
LocalReviewed ==
    [EmptyStorage EXCEPT
        !.userProgress =
            <<updateUserProgress(
                Restamp(WithLastModified(Unsynced("w1", <<5>>, 1), 1), 1), 5, 5)>>,
        !.testResults = <<ResultOf("w1", 5, 1), ResultOf("w1", 5, 5)>>]

LocalInits == {EmptyStorage, LocalReviewed}

\* What device B uploaded (upload strategy) at time 5 after its reviews.
RemoteDoc(userProgress, testResults) ==
    LET data == [exportData([EmptyStorage EXCEPT !.userProgress = userProgress,
                                                 !.testResults = testResults], 5)
                 EXCEPT !.valid = TRUE]
    IN  [data EXCEPT !.syncMetadata =
            [lastSyncTime |-> 5, dataChecksum |-> calculateChecksum(data),
             recordCount |-> Len(userProgress), deviceId |-> "B", syncVersion |-> 1]]

RemoteDocs ==
    {NoDoc,
     RemoteDoc(<<Unsynced("w1", <<2>>, 5)>>, <<ResultOf("w1", 2, 5)>>),
     RemoteDoc(<<Unsynced("w2", <<4>>, 5)>>, <<ResultOf("w2", 4, 5)>>)}

DriveInits ==
    {[folders |-> 0, files |-> <<>>], [folders |-> 1, files |-> <<>>]}
    \cup {[folders |-> 1, files |-> <<[parent |-> 1, content |-> doc]>>] : doc \in RemoteDocs}

Init ==
    /\ now = MergeTime
    /\ InitCard
    /\ InitMergeIdle
    /\ InitSessionIdle
    /\ InitImportIdle
    /\ localStorage \in {[d \in Devices |-> IF d = "A" THEN ls ELSE EmptyStorage] :
                            ls \in LocalInits}
    /\ drive \in DriveInits
    /\ calls = [d \in Devices |-> [c \in Callers |-> IdleCall]]
    /\ syncs = 0
    /\ faults \in 0..MaxFaults

Next ==
    \/ \E c \in Callers, strategy \in Strategies :
          syncs < MaxSyncs /\ StartSync("A", c, strategy) /\ UNCHANGED <<sm2vars, mergevars, imported, syncConflicts, reviewedOn>>
    \/ \E c \in Callers : RefreshResponse("A", c) /\ UNCHANGED <<sm2vars, mergevars, imported, syncConflicts, reviewedOn>>
    \/ \E c \in Callers : FolderResponse("A", c) /\ UNCHANGED <<sm2vars, mergevars, imported, syncConflicts, reviewedOn>>
    \/ \E c \in Callers : MkdirResponse("A", c) /\ UNCHANGED <<sm2vars, mergevars, imported, syncConflicts, reviewedOn>>
    \/ \E c \in Callers : FileResponse("A", c) /\ UNCHANGED <<sm2vars, mergevars, imported, syncConflicts, reviewedOn>>
    \/ \E c \in Callers : DownloadResponse("A", c) /\ UNCHANGED <<sm2vars, mergevars, imported, syncConflicts, reviewedOn>>
    \/ \E c \in Callers : PutResponse("A", c) /\ UNCHANGED <<sm2vars, mergevars, imported, syncConflicts, reviewedOn>>

Spec == Init /\ [][Next]_vars

(***************************************************************************)
(* SpecReview: flashcard sessions on device A between merge syncs the user *)
(* starts, with a remote that answers every request.                       *)
(***************************************************************************)
InitReview ==
    /\ now = 1
    /\ InitCard
    /\ InitMergeIdle
    /\ InitSessionIdle
    /\ InitImportIdle
    /\ InitDevicesIdle
    /\ drive \in {[folders |-> 0, files |-> <<>>],
                  [folders |-> 1,
                   files |-> <<[parent |-> 1,
                                content |-> RemoteDoc(<<Unsynced("w1", <<2>>, 1)>>,
                                                      <<ResultOf("w1", 2, 1)>>)]>>]}
    /\ calls = [d \in Devices |-> [c \in Callers |-> IdleCall]]
    /\ syncs = 0
    /\ faults = 0

NextReview ==
    \/ Tick /\ UNCHANGED <<sm2vars, mergevars, imported, syncConflicts, reviewedOn, localStorage, syncvars, session>>
    \/ StartSession("A") /\ UNCHANGED <<sm2vars, mergevars, imported, syncConflicts, reviewedOn, syncvars>>
    \/ \E wordId \in Words, quality \in SessionQualities :
          Review("A", wordId, quality) /\ UNCHANGED <<sm2vars, mergevars, imported, syncConflicts, syncvars>>
    \/ syncs < MaxSyncs /\ StartSync("A", "manual", "merge") /\ UNCHANGED <<sm2vars, mergevars, imported, syncConflicts, reviewedOn>>
    \/ RefreshResponse("A", "manual") /\ UNCHANGED <<sm2vars, mergevars, imported, syncConflicts, reviewedOn>>
    \/ FolderResponse("A", "manual") /\ UNCHANGED <<sm2vars, mergevars, imported, syncConflicts, reviewedOn>>
    \/ MkdirResponse("A", "manual") /\ UNCHANGED <<sm2vars, mergevars, imported, syncConflicts, reviewedOn>>
    \/ FileResponse("A", "manual") /\ UNCHANGED <<sm2vars, mergevars, imported, syncConflicts, reviewedOn>>
    \/ DownloadResponse("A", "manual") /\ UNCHANGED <<sm2vars, mergevars, imported, syncConflicts, reviewedOn>>
    \/ PutResponse("A", "manual") /\ UNCHANGED <<sm2vars, mergevars, imported, syncConflicts, reviewedOn>>

SpecReview == InitReview /\ [][NextReview]_vars

(***************************************************************************)
(* SpecStore: the store of device A under flashcard sessions and backups   *)
(* that are exported and imported at once.                                 *)
(***************************************************************************)
InitStore ==
    /\ now = 1
    /\ InitCard
    /\ InitMergeIdle
    /\ InitSessionIdle
    /\ InitImportIdle
    /\ InitDevicesIdle
    /\ InitSyncIdle

NextStore ==
    \/ Tick /\ UNCHANGED <<sm2vars, mergevars, imported, syncConflicts, reviewedOn, localStorage, syncvars, session>>
    \/ StartSession("A") /\ UNCHANGED <<sm2vars, mergevars, imported, syncConflicts, reviewedOn, syncvars>>
    \/ \E wordId \in Words, quality \in SessionQualities :
          Review("A", wordId, quality) /\ UNCHANGED <<sm2vars, mergevars, imported, syncConflicts, syncvars>>
    \/ ExportImport("A")
          /\ UNCHANGED <<sm2vars, mergevars, syncvars, syncConflicts, reviewedOn>>

SpecStore == InitStore /\ [][NextStore]_vars

(***************************************************************************)
(* Conflict resolution: components/SyncConflicts.                          *)
(***************************************************************************)
\* { ...p, ...q }
Spread(p, q) ==
    [f \in DOMAIN p \cup DOMAIN q |-> IF f \in DOMAIN q THEN q[f] ELSE p[f]]

\* ProgressTracker.saveUserProgress(progress): JSON.stringify of the array.
saveUserProgress(ls, progress) ==
    [ls EXCEPT !.userProgress =
        [i \in DOMAIN progress |->
            Stringify(progress[i], {"nextReview", "lastReviewed", "lastModified"})]]

\* The record a resolution stores for p: the chosen version over p, stamped
\* now, its syncVersion (0 when absent) plus one.
ApplyChoice(p, dataToKeep, t) ==
    [Spread(p, dataToKeep) EXCEPT !.lastModified = t,
                                  !.syncVersion = dataToKeep.syncVersion + 1]

\* The component is handed the conflicts of the stored sync status
\* (useEffect on the `conflicts` prop).
ShowConflicts(d) ==
    /\ syncConflicts[d] # getSyncStatus(d).conflicts
    /\ syncConflicts' = [syncConflicts EXCEPT ![d] = getSyncStatus(d).conflicts]
    /\ UNCHANGED <<now, localStorage, session, reviewedOn>>

\* A variant that appends the chosen version instead of replacing the
\* record of the word.
handleResolveConflict_append(ls, conflicts, wordId, useLocal, t) ==
    LET conflict == conflicts[FindIndex(conflicts, "wordId", wordId)]
        dataToKeep == IF useLocal THEN conflict.localData ELSE conflict.remoteData
        userProgress == getUserProgress(ls)
        updatedConflicts == SelectSeq(conflicts, LAMBDA c : c.wordId # wordId)
    IN  [ls |-> [saveUserProgress(ls, Append(userProgress,
                                             ApplyChoice(dataToKeep, dataToKeep, t)))
                    EXCEPT !.syncStatus = [@ EXCEPT !.conflicts = updatedConflicts]],
         conflicts |-> updatedConflicts]

\* handleResolveConflict(wordId, useLocal) with the component state
\* `conflicts`, which holds a conflict of the word: what it stores and the
\* component state it leaves.
handleResolveConflict(ls, conflicts, wordId, useLocal, t) ==
    LET conflict == conflicts[FindIndex(conflicts, "wordId", wordId)]
        dataToKeep == IF useLocal THEN conflict.localData ELSE conflict.remoteData
        userProgress == getUserProgress(ls)
        updatedProgress ==
            [i \in DOMAIN userProgress |->
                IF userProgress[i].wordId = wordId
                THEN ApplyChoice(userProgress[i], dataToKeep, t)
                ELSE userProgress[i]]
        updatedConflicts == SelectSeq(conflicts, LAMBDA c : c.wordId # wordId)
    IN  [ls |-> [saveUserProgress(ls, updatedProgress)
                    EXCEPT !.syncStatus = [@ EXCEPT !.conflicts = updatedConflicts]],
         conflicts |-> updatedConflicts]

\* handleResolveAll(useLocal)
handleResolveAll(ls, conflicts, useLocal, t) ==
    LET userProgress == getUserProgress(ls)
        updatedProgress ==
            [i \in DOMAIN userProgress |->
                LET at == FindIndex(conflicts, "wordId", userProgress[i].wordId)
                IN  IF at > 0
                    THEN ApplyChoice(userProgress[i],
                                     IF useLocal THEN conflicts[at].localData
                                     ELSE conflicts[at].remoteData, t)
                    ELSE userProgress[i]]
    IN  [ls |-> [saveUserProgress(ls, updatedProgress)
                    EXCEPT !.syncStatus = [@ EXCEPT !.conflicts = <<>>]],
         conflicts |-> <<>>]

\* The user looks at the conflicts shown and keeps one version of one
\* word: the click comes a tick after the conflicts were shown, and the
\* handler reads the clock then.  Without a conflict of the word the handler
\* returns at once.
ResolveConflict(d, wordId, useLocal) ==
    /\ FindIndex(syncConflicts[d], "wordId", wordId) > 0
    /\ now' = now + 1
    /\ LET done == handleResolveConflict(localStorage[d], syncConflicts[d], wordId,
                                         useLocal, now')
       IN  /\ localStorage' = [localStorage EXCEPT ![d] = done.ls]
           /\ syncConflicts' = [syncConflicts EXCEPT ![d] = done.conflicts]
    /\ UNCHANGED <<session, reviewedOn>>

\* The user keeps the same side for every word, a tick after the conflicts
\* were shown.  The buttons are rendered only while the component holds a
\* conflict.
ResolveAll(d, useLocal) ==
    /\ syncConflicts[d] # <<>>
    /\ now' = now + 1
    /\ LET done == handleResolveAll(localStorage[d], syncConflicts[d], useLocal, now')
       IN  /\ localStorage' = [localStorage EXCEPT ![d] = done.ls]
           /\ syncConflicts' = [syncConflicts EXCEPT ![d] = done.conflicts]
    /\ UNCHANGED <<session, reviewedOn>>

(***************************************************************************)
(* SpecDevices: two devices of one user.  Each runs flashcard sessions,    *)
(* merge syncs started by the user, and the conflict component, against    *)
(* the one Drive.  No remote answer fails.                                 *)
(***************************************************************************)
WaitTicks == 4

\* More than the conflict window passes.
Wait ==
    /\ now <= MaxTime
    /\ now' = now + WaitTicks

\* An undisturbed sync: every remote answer is ok, the first folder and
\* the first file in it are the ones found.
Answered(x) ==
    LET files == {i \in DOMAIN x.dr.files : x.dr.files[i].parent = x.c.folderId}
        first(S) == IF S = {} THEN NoId ELSE CHOOSE i \in S : \A j \in S : i <= j
    IN  CASE x.c.pc = "refresh" -> OnRefresh(x, "ok")
          [] x.c.pc = "folder" -> OnFolder(x, "ok", IF x.dr.folders > 0 THEN 1 ELSE NoId)
          [] x.c.pc = "mkdir" -> OnMkdir(x, "ok")
          [] x.c.pc = "file" -> OnFile(x, "ok", first(files))
          [] x.c.pc = "download" -> OnDownload(x, "ok")
          [] x.c.pc = "put" -> OnPut(x, "ok")
          [] OTHER -> x

MaxRequests == 12

RECURSIVE Completed(_, _)
Completed(x, n) == IF n = 0 \/ ~InFlight(x.c) THEN x ELSE Completed(Answered(x), n - 1)

\* The documents of device d, the Drive and the call after device d, holding
\* ls, ran an undisturbed merge sync against the Drive dr at time t.
MergeSynced(d, ls, dr, t) ==
    LET fresh == [IdleCall EXCEPT !.strategy = "merge",
                                  !.before = Collections(ls),
                                  !.filesBefore = Len(dr.files)]
    IN  Completed(Begin([d |-> d, ls |-> ls, dr |-> dr, c |-> fresh, t |-> t],
                        "merge"), MaxRequests)

\* Device A rated w1 in a session opened at time 1 and synced; then device
\* B, which holds nothing, synced.
FirstRated == handleQualitySelect(EmptyStorage, initializeSession(1), "w1", 4, 1)
FirstSynced == MergeSynced("A", FirstRated.ls, [folders |-> 0, files |-> <<>>], 1)
SecondSynced == MergeSynced("B", EmptyStorage, FirstSynced.dr, 1)

InitDevices ==
    /\ now = 1
    /\ InitCard
    /\ InitMergeIdle
    /\ imported = NotImported
    /\ syncConflicts = [d \in Devices |-> <<>>]
    /\ syncs = 0
    /\ faults = 0
    /\ \/ /\ InitDevicesIdle
          /\ InitSessionIdle
          /\ drive = [folders |-> 0, files |-> <<>>]
          /\ calls = [d \in Devices |-> [c \in Callers |-> IdleCall]]
          /\ reviewedOn = [d \in Devices |-> {}]
       \/ /\ localStorage = [d \in Devices |->
                               IF d = "A" THEN FirstSynced.ls ELSE SecondSynced.ls]
          /\ session = [d \in Devices |->
                          IF d = "A" THEN FirstRated.ss ELSE NoSession]
          /\ drive = SecondSynced.dr
          /\ calls = [d \in Devices |-> [c \in Callers |->
                         IF c # "manual" THEN IdleCall
                         ELSE IF d = "A" THEN FirstSynced.c ELSE SecondSynced.c]]
          /\ reviewedOn = [d \in Devices |-> IF d = "A" THEN {"w1"} ELSE {}]

\* No sync is in progress on either device.  In this specification the user
\* rates cards, resolves conflicts and starts a sync only then, and the
\* clock moves only then; the conflict component is refreshed at any time.
Quiet == \A d \in Devices : ~InFlight(calls[d]["manual"])

NextDevices ==
    \/ Quiet /\ Wait /\ UNCHANGED <<sm2vars, mergevars, imported, syncConflicts, reviewedOn, localStorage, syncvars, session>>
    \/ \E d \in Devices :
          Quiet /\ StartSession(d) /\ UNCHANGED <<sm2vars, mergevars, imported, syncConflicts, reviewedOn, syncvars>>
    \/ \E d \in Devices, wordId \in Words, quality \in SessionQualities :
          Quiet /\ Review(d, wordId, quality) /\ UNCHANGED <<sm2vars, mergevars, imported, syncConflicts, syncvars>>
    \/ \E d \in Devices :
          Quiet /\ syncs < MaxSyncs /\ StartSync(d, "manual", "merge") /\ UNCHANGED <<sm2vars, mergevars, imported, syncConflicts, reviewedOn>>
    \/ \E d \in Devices :
          RefreshResponse(d, "manual") /\ UNCHANGED <<sm2vars, mergevars, imported, syncConflicts, reviewedOn>>
    \/ \E d \in Devices :
          FolderResponse(d, "manual") /\ UNCHANGED <<sm2vars, mergevars, imported, syncConflicts, reviewedOn>>
    \/ \E d \in Devices :
          MkdirResponse(d, "manual") /\ UNCHANGED <<sm2vars, mergevars, imported, syncConflicts, reviewedOn>>
    \/ \E d \in Devices :
          FileResponse(d, "manual") /\ UNCHANGED <<sm2vars, mergevars, imported, syncConflicts, reviewedOn>>
    \/ \E d \in Devices :
          DownloadResponse(d, "manual") /\ UNCHANGED <<sm2vars, mergevars, imported, syncConflicts, reviewedOn>>
    \/ \E d \in Devices :
          PutResponse(d, "manual") /\ UNCHANGED <<sm2vars, mergevars, imported, syncConflicts, reviewedOn>>
    \/ \E d \in Devices :
          ShowConflicts(d) /\ UNCHANGED <<sm2vars, mergevars, imported, syncvars>>
    \/ \E d \in Devices, wordId \in Words, useLocal \in BOOLEAN :
          Quiet /\ ResolveConflict(d, wordId, useLocal) /\ UNCHANGED <<sm2vars, mergevars, imported, syncvars>>
    \/ \E d \in Devices, useLocal \in BOOLEAN :
          Quiet /\ ResolveAll(d, useLocal) /\ UNCHANGED <<sm2vars, mergevars, imported, syncvars>>

SpecDevices == InitDevices /\ [][NextDevices]_vars

(***************************************************************************)
(* Claims about the scheduler (SpecSM2).                                   *)
(***************************************************************************)
\* C9: from a fresh record, after k reviews that all had quality >= 3,
\* repetitions is k; the interval is 1 after the first review, 6 after the
\* second, and after each later one it is the previous interval times the
\* easeFactor the record had before that review, rounded to the nearest
\* integer (half up).
C9_IntervalSequence ==
    (cardGood /\ cardReviews >= 1) =>
        /\ card.repetitions = cardReviews
        /\ (cardReviews = 1 => card.interval = 1)
        /\ (cardReviews = 2 => card.interval = 6)
        /\ (cardReviews >= 3 =>
                LET p == cardPrev.interval * cardPrev.easeFactor
                IN  /\ 100 * card.interval <= p + 50
                    /\ 100 * card.interval > p - 50)

C9_Witness ==
    /\ cardGood
    /\ cardReviews = 4
    /\ cardPrev.interval > 6
    /\ cardPrev.easeFactor # card.easeFactor
    /\ card.interval > cardPrev.interval

\* C10: whatever the record was, a review with quality < 3 leaves
\* repetitions = 0 and interval = 1.
C10_LapseResets ==
    (cardQ # NoQuality /\ cardQ < 3) =>
        (card.repetitions = 0 /\ card.interval = 1)

C10_Witness ==
    /\ cardQ # NoQuality
    /\ cardQ < 3
    /\ cardPrev.repetitions >= 3
    /\ cardPrev.interval > 6
    /\ card.repetitions = 0

(***************************************************************************)
(* Claims about the merge engine (SpecMerge).                              *)
(***************************************************************************)
WordIdsOf(arr) == {arr[i].wordId : i \in DOMAIN arr}
RecordOf(arr, w) == arr[CHOOSE i \in DOMAIN arr : arr[i].wordId = w]
InBoth(w) == w \in WordIdsOf(mergeLocal) /\ w \in WordIdsOf(mergeRemote)
ConflictFor(w) ==
    \E i \in DOMAIN mergeOut.conflicts :
        /\ mergeOut.conflicts[i].wordId = w
        /\ mergeOut.conflicts[i].conflictType = "both-modified"

\* The lastModified and syncVersion a record is compared with: a record stored
\* without lastModified counts with its lastReviewed time and version 1.
ComparedTime(r) == IF r.lastModified # NoTime THEN r.lastModified ELSE r.lastReviewed
ComparedVersion(r) == IF r.lastModified # NoTime THEN r.syncVersion ELSE 1

\* Every field but the two the merge restamps.
Content(r) == [r EXCEPT !.syncVersion = NoVersion, !.lastModified = NoTime]

C5_ProvisionalWinner ==
    mergeOut.ran =>
        \A w \in Words : InBoth(w) =>
            LET l == RecordOf(mergeLocal, w)
                r == RecordOf(mergeRemote, w)
                m == RecordOf(mergeOut.merged, w)
                lt == ComparedTime(l)
                rt == ComparedTime(r)
            IN  /\ rt > lt => Content(m) = Content(r)
                /\ rt < lt => Content(m) = Content(l)
                /\ (rt = lt /\ r.repetitions > l.repetitions) => Content(m) = Content(r)
                /\ (rt = lt /\ r.repetitions < l.repetitions) => Content(m) = Content(l)
                /\ (rt = lt /\ r.repetitions = l.repetitions
                            /\ r.masteryLevel > l.masteryLevel) => Content(m) = Content(r)
                /\ (rt = lt /\ r.repetitions = l.repetitions
                            /\ r.masteryLevel < l.masteryLevel) => Content(m) = Content(l)

\* A conflict is emitted and the newer remote record wins with fewer repetitions.
C5_Witness ==
    /\ mergeOut.ran
    /\ InBoth("w1")
    /\ ConflictFor("w1")
    /\ LET l == RecordOf(mergeLocal, "w1")
           r == RecordOf(mergeRemote, "w1")
       IN  /\ r.lastModified > l.lastModified
           /\ l.lastModified # NoTime
           /\ r.repetitions < l.repetitions
           /\ Content(RecordOf(mergeOut.merged, "w1")) = Content(r)
           /\ Content(r) # Content(l)

\* C7: the merged array holds exactly one record for every wordId of local or
\* remote and no other wordId; when the two share no wordId no conflict is
\* emitted.
C7_UnionOfWordIds ==
    mergeOut.ran =>
        /\ WordIdsOf(mergeOut.merged) = WordIdsOf(mergeLocal) \cup WordIdsOf(mergeRemote)
        /\ \A i, j \in DOMAIN mergeOut.merged :
                mergeOut.merged[i].wordId = mergeOut.merged[j].wordId => i = j
        /\ (WordIdsOf(mergeLocal) \cap WordIdsOf(mergeRemote) = {}
                => mergeOut.conflicts = <<>>)

C7_Witness ==
    /\ mergeOut.ran
    /\ WordIdsOf(mergeLocal) = {"w1"}
    /\ WordIdsOf(mergeRemote) = {"w2"}
    /\ Len(mergeOut.merged) = 2
    /\ mergeOut.conflicts = <<>>


(***************************************************************************)
(* Claims about the sync orchestrator (Spec)                               *)
(***************************************************************************)
\* A call that has settled and that no other call of the device overlapped
\* or followed.
Settled(c, pc) == calls["A"][c].pc = pc /\ calls["A"][c].clean

\* C1: whenever a syncWithGoogleDrive call ends in an error, the four local
\* collections are what they were when the call started.
C1_ErrorLeavesStoreUnchanged ==
    \A c \in Callers :
        Settled(c, "failed") =>
            Collections(localStorage["A"]) = calls["A"][c].before

\* C2: on one device at most one syncWithGoogleDrive call is in flight.
C2_AtMostOneInFlight ==
    Cardinality({c \in Callers : InFlight(calls["A"][c])}) <= 1

\* C3: once a merge-strategy sync that found conflicts has completed,
\* getSyncStatus().conflicts contains every conflict it found.
C3_ConflictsVisible ==
    \A c \in Callers :
        (/\ Settled(c, "done")
         /\ calls["A"][c].strategy = "merge"
         /\ calls["A"][c].found # <<>>)
        => \A i \in DOMAIN calls["A"][c].found :
              \E j \in DOMAIN getSyncStatus("A").conflicts :
                  getSyncStatus("A").conflicts[j] = calls["A"][c].found[i]

\* A merge-strategy sync that started when the drive held no data file and
\* has completed.
MergedWithoutRemote(c) ==
    /\ Settled(c, "done")
    /\ calls["A"][c].strategy = "merge"
    /\ calls["A"][c].filesBefore = 0

\* C6: when the remote holds no data file, a merge-strategy sync leaves
\* every local record unchanged in every field, records no conflicts, and
\* uploads the local snapshot as the new remote.
C6_MergeWithoutRemote ==
    \A c \in Callers :
        MergedWithoutRemote(c) =>
            /\ Collections(localStorage["A"]) = calls["A"][c].before
            /\ calls["A"][c].found = <<>>
            /\ getSyncStatus("A").conflicts = <<>>
            /\ Len(drive.files) = 1
            /\ drive.files[1].content.valid
            /\ Collections(drive.files[1].content) = calls["A"][c].before

\* C6 witness: such a sync has completed on a store that holds a record.
C6_Witness ==
    \E c \in Callers :
        /\ MergedWithoutRemote(c)
        /\ calls["A"][c].before.userProgress # <<>>
        /\ calls["A"][c].requests >= 4

(***************************************************************************)
(* Claims about reviews (SpecReview)                                       *)
(***************************************************************************)
\* C8: after every review of an item the stored record's lastModified
\* equals the time of that review.
C8_ReviewSetsLastModified ==
    [][\A wordId \in Words, quality \in SessionQualities :
          Review("A", wordId, quality) =>
              RecordOf(localStorage'["A"].userProgress, wordId).lastModified = now]_vars


(***************************************************************************)
(* More claims about the scheduler (SpecSM2)                               *)
(***************************************************************************)
\* C11: after any sequence of reviews from the initial easeFactor 2.5,
\* easeFactor is never below 1.3, and no upper cap is applied: a review
\* whose adjustment stays at or above 1.3 stores the adjusted value itself.
C11_EaseFloorNoCap ==
    /\ card.easeFactor >= MinEase
    /\ (cardQ # NoQuality /\ cardPrev.easeFactor + EaseDelta(cardQ) >= MinEase) =>
            card.easeFactor = cardPrev.easeFactor + EaseDelta(cardQ)

\* C11 witness: consecutive quality-0 ratings have pushed the adjustment
\* below 1.3 more than once and the record holds 1.3.
C11_Witness ==
    /\ cardReviews = MaxReviews
    /\ cardQ = 0
    /\ cardPrev.easeFactor = MinEase
    /\ cardPrev.easeFactor + EaseDelta(cardQ) < MinEase
    /\ card.easeFactor = MinEase

\* C12: after any sequence of reviews of a fresh record, masteryLevel is in
\* [0,100], 0 <= correctCount <= totalSeen, accuracy is correctCount /
\* totalSeen, and masteryLevel is 0 while totalSeen is 0.
C12_ProgressInvariants ==
    /\ card.masteryLevel \in 0..100
    /\ 0 <= card.correctCount
    /\ card.correctCount <= card.totalSeen
    /\ card.totalSeen = cardReviews
    /\ (card.totalSeen > 0 =>
            card.accuracy.num * card.totalSeen = card.correctCount * card.accuracy.den)
    /\ (card.totalSeen = 0 => card.masteryLevel = 0 /\ card.accuracy.num = 0)

\* C12 witness: a record with right and wrong answers, after a review that
\* followed one the cap of 100 had cut.
C12_Witness ==
    /\ card.totalSeen >= 3
    /\ 0 < card.correctCount
    /\ card.correctCount < card.totalSeen
    /\ card.masteryLevel \in 1..99
    /\ cardPrev.masteryLevel = 100
    /\ cardPrev.correctCount * 10 * (10 + cardPrev.repetitions) > 100 * cardPrev.totalSeen

\* C13: a review sets masteryLevel to min(100, round(accuracy' * 100 *
\* (1 + repetitions' * 0.1))) with the values after the review; a fresh
\* record reviewed once with quality 5 ends with repetitions 1, interval 1,
\* totalSeen 1, correctCount 1 and masteryLevel 100.
C13_MasteryFromNewRepetitions ==
    /\ cardQ # NoQuality =>
          /\ card.masteryLevel =
                Min(100, Round(card.accuracy.num * 10 * (10 + card.repetitions),
                               card.accuracy.den))
          /\ card.repetitions = IF cardQ >= 3 THEN cardPrev.repetitions + 1 ELSE 0
    /\ (cardReviews = 1 /\ cardQ = 5) =>
          /\ card.repetitions = 1
          /\ card.interval = 1
          /\ card.totalSeen = 1
          /\ card.correctCount = 1
          /\ card.masteryLevel = 100

\* C13 witness: a lapse after a streak, where the old and the new
\* repetitions give different mastery levels.
C13_Witness ==
    /\ cardQ # NoQuality
    /\ cardQ < 3
    /\ cardPrev.repetitions >= 2
    /\ card.repetitions = 0
    /\ card.masteryLevel > 0
    /\ card.masteryLevel < 100
    /\ card.masteryLevel #
          Min(100, Round(card.correctCount * 10 * (10 + cardPrev.repetitions),
                         card.totalSeen))

(***************************************************************************)
(* Claims about the store (SpecStore)                                      *)
(***************************************************************************)
\* C14: importData(exportData()) returns true and leaves the learning
\* records, test results, flashcard sessions and test sessions equal to
\* what they were before; an empty store stays empty.
C14_ExportImportRoundTrip ==
    imported.ran =>
        /\ imported.ok
        /\ Stored(imported.after) = Stored(imported.before)
        /\ imported.after = imported.before
        /\ (imported.before = Collections(EmptyStorage) =>
                imported.after = Collections(EmptyStorage))

\* C14 witness: the round trip ran on a store that holds records, test
\* results and a session that has ended.
C14_Witness ==
    /\ imported.ran
    /\ Len(imported.before.userProgress) = 2
    /\ Len(imported.before.testResults) = 2
    /\ Len(imported.before.flashcardSessions) = 1
    /\ imported.before.flashcardSessions[1].endTime # NoTime

(***************************************************************************)
(* More claims about the sync orchestrator (Spec)                          *)
(***************************************************************************)
\* C16: getSyncStatus().isSyncing is true if and only if a
\* syncWithGoogleDrive call is in flight.
C16_SyncingIffInFlight ==
    getSyncStatus("A").isSyncing <=> \E c \in Callers : InFlight(calls["A"][c])

\* A download-strategy sync that has completed; fileId is the file it read.
Downloaded(c) ==
    /\ Settled(c, "done")
    /\ calls["A"][c].strategy = "download"

\* C17: a download-strategy sync with no remote file ends without error and
\* leaves all local collections unchanged; with a remote file it ends with
\* every local collection equal to the remote document's and with the
\* locally stored SyncMetadata updated.
C17_DownloadReplacesStore ==
    \A c \in Callers :
        /\ ~(/\ Settled(c, "failed")
              /\ calls["A"][c].strategy = "download"
              /\ calls["A"][c].filesBefore = 0
              /\ faults = MaxFaults)
        /\ (Downloaded(c) /\ calls["A"][c].filesBefore = 0) =>
                /\ Collections(localStorage["A"]) = calls["A"][c].before
                /\ getSyncStatus("A").error = NoError
        /\ (Downloaded(c) /\ calls["A"][c].fileId # NoId
                /\ drive.files[calls["A"][c].fileId].content.valid) =>
                /\ Collections(localStorage["A"]) =
                        Collections(drive.files[calls["A"][c].fileId].content)
                /\ localStorage["A"].syncMetadata.lastSyncTime = now

\* The part of C17 that leaves the SyncMetadata aside.
C17_CollectionsReplaced ==
    \A c \in Callers :
        (Downloaded(c) /\ calls["A"][c].fileId # NoId
            /\ drive.files[calls["A"][c].fileId].content.valid) =>
            Collections(localStorage["A"]) =
                Collections(drive.files[calls["A"][c].fileId].content)

\* C18: when a request of a sync is answered with 401, the sync ends in the
\* session-expired error, the device is logged out afterwards, and the sync
\* sends no further request.
C18_UnauthorizedLogsOut ==
    \A c \in Callers :
        calls["A"][c].unauthorizedAt # 0 =>
            /\ calls["A"][c].pc = "failed"
            /\ calls["A"][c].error \in {DriveExpiredMsg, SessionExpiredMsg}
            /\ calls["A"][c].requests = calls["A"][c].unauthorizedAt
            /\ (calls["A"][c].clean => ~localStorage["A"].user)

(***************************************************************************)
(* More claims about reviews and syncs on one device (SpecReview)          *)
(***************************************************************************)
\* The fields of a record a review computes.
Scheduling(r) ==
    <<r.repetitions, r.interval, r.easeFactor, r.correctCount, r.totalSeen,
      r.masteryLevel>>

\* C19: on a single device, a record that an earlier merge sync stamped and
\* that was reviewed afterwards keeps, through the next merge sync, the
\* repetitions, interval, easeFactor, correctCount, totalSeen and
\* masteryLevel the review gave it.
C19_SyncKeepsLocalReview ==
    [][(DownloadResponse("A", "manual") /\ calls'["A"]["manual"].merged) =>
          \A i \in DOMAIN localStorage["A"].userProgress :
              LET local == localStorage["A"].userProgress[i]
              IN  local.lastModified # NoTime =>
                    Scheduling(RecordOf(localStorage'["A"].userProgress, local.wordId))
                        = Scheduling(local)]_vars

(***************************************************************************)
(* Claims about two devices (SpecDevices)                                  *)
(***************************************************************************)
OnePerWord(arr) ==
    \A i, j \in DOMAIN arr : arr[i].wordId = arr[j].wordId => i = j

\* The merge sync of device d stores, in this step, what it merged.
Arrives(d) == DownloadResponse(d, "manual") /\ calls'[d]["manual"].merged

\* C15: through reviews, conflict resolutions and merge syncs, the store of
\* a device holds at most one learning record per wordId, and a record of a
\* wordId the store did not hold appears only in the step that reviews the
\* word on the device or in the step of a sync that stores the merged data.
C15_OneRecordPerWord ==
    /\ \A d \in Devices : OnePerWord(localStorage[d].userProgress)
    /\ [][\A d \in Devices :
            /\ OnePerWord(localStorage'[d].userProgress)
            /\ \A w \in WordIdsOf(localStorage'[d].userProgress)
                        \ WordIdsOf(localStorage[d].userProgress) :
                  \/ \E quality \in SessionQualities : Review(d, w, quality)
                  \/ Arrives(d)]_vars

\* C15 witness: a device rated a word, a later merge sync of the device
\* found a conflict about it, and the user resolved the conflict by keeping
\* the remote version; the store holds that version, stamped by the
\* resolution.
C15_Witness ==
    \E d \in Devices :
        LET c == calls[d]["manual"]
            userProgress == localStorage[d].userProgress
        IN  /\ c.pc = "done"
            /\ c.found # <<>>
            /\ syncConflicts[d] = <<>>
            /\ c.found[1].wordId \in reviewedOn[d]
            /\ RecordOf(userProgress, c.found[1].wordId)
                  = ApplyChoice(c.found[1].remoteData, c.found[1].remoteData, now)

\* C20: a merge sync reports a conflict about a word only if the word was
\* rated on both devices.
C20_ConflictOnlyIfBothReviewed ==
    \A d \in Devices :
        \A i \in DOMAIN calls[d]["manual"].found :
            \A e \in Devices : calls[d]["manual"].found[i].wordId \in reviewedOn[e]

(***************************************************************************)
(* More claims about the merge engine (SpecMerge)                          *)
(***************************************************************************)
OnOneSide(w) ==
    (w \in WordIdsOf(mergeLocal)) # (w \in WordIdsOf(mergeRemote))

TheSide(w) ==
    IF w \in WordIdsOf(mergeLocal) THEN RecordOf(mergeLocal, w)
    ELSE RecordOf(mergeRemote, w)

\* C25: for a wordId present in only one of local and remote, the merged
\* record equals that side's record in every field other than syncVersion
\* and lastModified; its lastModified is the merge time and its syncVersion
\* is one more than the version the merge reads from that side (the stored
\* one, or 1 for a record stored without lastModified).
C25_OneSideRestamped ==
    mergeOut.ran =>
        \A w \in Words : OnOneSide(w) =>
            LET m == RecordOf(mergeOut.merged, w)
            IN  /\ Content(m) = Content(TheSide(w))
                /\ m.lastModified = now
                /\ m.syncVersion = ComparedVersion(TheSide(w)) + 1

\* C25 as first stated: the merged record equals that side's record in
\* every field, syncVersion and lastModified included.
C25_Original ==
    mergeOut.ran =>
        \A w \in Words : OnOneSide(w) => RecordOf(mergeOut.merged, w) = TheSide(w)

\* C25 witness: w1 is held by the remote side only, stored without
\* lastModified, and w2 by the local side only, stamped by an earlier sync.
C25_Witness ==
    /\ mergeOut.ran
    /\ WordIdsOf(mergeLocal) = {"w2"}
    /\ WordIdsOf(mergeRemote) = {"w1"}
    /\ RecordOf(mergeRemote, "w1").lastModified = NoTime
    /\ RecordOf(mergeLocal, "w2").syncVersion = 2
    /\ RecordOf(mergeOut.merged, "w1").syncVersion = 2
    /\ RecordOf(mergeOut.merged, "w2").syncVersion = 3

\* C28: merging a record set with a remote that holds the same records emits
\* no conflict and leaves every field of every record unchanged except
\* syncVersion and lastModified; each record's lastModified is the merge time
\* and its syncVersion is one more than the version the merge reads (the
\* stored one, or 1 for a record stored without lastModified).
C28_SelfMerge ==
    (mergeOut.ran /\ mergeLocal = mergeRemote) =>
        /\ mergeOut.conflicts = <<>>
        /\ Len(mergeOut.merged) = Len(mergeLocal)
        /\ \A i \in DOMAIN mergeLocal :
              /\ Content(mergeOut.merged[i]) = Content(mergeLocal[i])
              /\ mergeOut.merged[i].lastModified = now
              /\ mergeOut.merged[i].syncVersion = ComparedVersion(mergeLocal[i]) + 1

\* C28 as first stated: each record's syncVersion is exactly 1 higher than
\* the stored one (0 when the record carries none).
C28_Original ==
    (mergeOut.ran /\ mergeLocal = mergeRemote) =>
        /\ mergeOut.conflicts = <<>>
        /\ Len(mergeOut.merged) = Len(mergeLocal)
        /\ \A i \in DOMAIN mergeLocal :
              /\ Content(mergeOut.merged[i]) = Content(mergeLocal[i])
              /\ mergeOut.merged[i].lastModified = now
              /\ mergeOut.merged[i].syncVersion = mergeLocal[i].syncVersion + 1

\* C28 witness: two records merged with themselves, one stamped by an
\* earlier sync and one never synced.
C28_Witness ==
    /\ mergeOut.ran
    /\ mergeLocal = mergeRemote
    /\ Len(mergeLocal) = 2
    /\ \E i \in DOMAIN mergeLocal : mergeLocal[i].lastModified = NoTime
    /\ \E i \in DOMAIN mergeLocal :
          /\ mergeLocal[i].syncVersion = 2
          /\ mergeOut.merged[i].syncVersion = 3
          /\ mergeOut.merged[i].lastModified > mergeLocal[i].lastModified

(***************************************************************************)
(* More claims about two devices (SpecDevices)                             *)
(***************************************************************************)
EntriesOf(arr) == {arr[i] : i \in DOMAIN arr}
KeysOf(arr) == {ItemKey(arr[i]) : i \in DOMAIN arr}

\* The merged log is a keyed union of local and remote: one entry per key of
\* either side, and no entry that is on neither side.
KeyedUnion(merged, local, remote) ==
    /\ KeysOf(merged) = KeysOf(local) \cup KeysOf(remote)
    /\ \A i, j \in DOMAIN merged : ItemKey(merged[i]) = ItemKey(merged[j]) => i = j
    /\ EntriesOf(merged) \subseteq EntriesOf(local) \cup EntriesOf(remote)

\* The document the merge sync of device d is downloading.
RemoteData(d) == drive.files[calls[d]["manual"].fileId].content

\* C29: in the step of a merge sync that stores the merged data, the stored
\* test results and session logs are keyed unions of the local and the
\* remote ones, and every test result of either side is among the stored
\* test results.
C29_LogsKeyedUnion ==
    [][\A d \in Devices : Arrives(d) =>
          /\ KeyedUnion(localStorage'[d].testResults, localStorage[d].testResults,
                        RemoteData(d).testResults)
          /\ KeyedUnion(localStorage'[d].flashcardSessions,
                        localStorage[d].flashcardSessions,
                        RemoteData(d).flashcardSessions)
          /\ KeyedUnion(localStorage'[d].testSessions, localStorage[d].testSessions,
                        RemoteData(d).testSessions)
          /\ EntriesOf(localStorage[d].testResults)
                \cup EntriesOf(RemoteData(d).testResults)
                    \subseteq EntriesOf(localStorage'[d].testResults)]_vars

(***************************************************************************)
(* More claims about the sync orchestrator (Spec)                          *)
(***************************************************************************)
\* The call has settled, nothing overlapped or followed it, and the remote
\* document it was to read does not parse.
ReadUnparseable(c) ==
    /\ Settled(c, "done") \/ Settled(c, "failed")
    /\ calls["A"][c].strategy \in {"download", "merge"}
    /\ calls["A"][c].fileId # NoId
    /\ ~drive.files[calls["A"][c].fileId].content.valid

\* C30: a download or merge sync whose remote document cannot be parsed
\* does not complete as a success, and none of the four local collections
\* is changed.
C30_UnparseableAborts ==
    \A c \in Callers :
        ReadUnparseable(c) =>
            /\ calls["A"][c].pc = "failed"
            /\ Collections(localStorage["A"]) = calls["A"][c].before

\* C24: after a syncWithGoogleDrive call has failed, whichever strategy ran
\* and whichever step failed, getSyncStatus().error holds the failure's
\* message; after a call that succeeded it is null.
C24_ErrorSurfaced ==
    \A c \in Callers :
        /\ Settled(c, "failed") =>
              /\ calls["A"][c].error # NoError
              /\ getSyncStatus("A").error = calls["A"][c].error
        /\ Settled(c, "done") => getSyncStatus("A").error = NoError

\* C23: a conflict that getSyncStatus().conflicts held when a
\* syncWithGoogleDrive call started is still held once the call has settled,
\* whatever its strategy and outcome.  (No conflict is resolved in this
\* specification.)
C23_ConflictsCarried ==
    \A c \in Callers :
        calls["A"][c].pc \in {"done", "failed"} =>
            \A i \in DOMAIN calls["A"][c].conflictsBefore :
                \E j \in DOMAIN getSyncStatus("A").conflicts :
                    getSyncStatus("A").conflicts[j] = calls["A"][c].conflictsBefore[i]

(***************************************************************************)
(* Claims about versions and resolutions (SpecDevices)                     *)
(***************************************************************************)
\* C26: the syncVersion of the record a store holds for a word never
\* decreases through reviews, merge syncs and conflict resolutions, and a
\* merge sync that found a remote file leaves it strictly larger.
C26_VersionMonotonic ==
    [][\A d \in Devices :
          \A w \in WordIdsOf(localStorage[d].userProgress)
                      \cap WordIdsOf(localStorage'[d].userProgress) :
              LET before == RecordOf(localStorage[d].userProgress, w).syncVersion
                  after == RecordOf(localStorage'[d].userProgress, w).syncVersion
              IN  /\ after >= before
                  /\ Arrives(d) => after > before]_vars

\* C27: resolving the conflict of a word by choosing local (or remote) gives
\* the stored record of the word the chosen side's scheduling fields and a
\* syncVersion above the one it had just before, removes the word's conflict
\* from getSyncStatus().conflicts and leaves every other record and every
\* other conflict as they were.
C27_ResolutionApplied ==
    [][\A d \in Devices, w \in Words, useLocal \in BOOLEAN :
          ResolveConflict(d, w, useLocal) =>
              LET conflict == syncConflicts[d][FindIndex(syncConflicts[d], "wordId", w)]
                  chosen == IF useLocal THEN conflict.localData ELSE conflict.remoteData
                  before == localStorage[d].userProgress
                  after == localStorage'[d].userProgress
              IN  /\ Scheduling(RecordOf(after, w)) = Scheduling(chosen)
                  /\ RecordOf(after, w).syncVersion > RecordOf(before, w).syncVersion
                  /\ getSyncStatus(d).conflicts # <<>> =>
                        localStorage'[d].syncStatus.conflicts
                            = SelectSeq(getSyncStatus(d).conflicts,
                                        LAMBDA c : c.wordId # w)
                  /\ \A i \in DOMAIN localStorage'[d].syncStatus.conflicts :
                        localStorage'[d].syncStatus.conflicts[i].wordId # w
                  /\ Len(after) = Len(before)
                  /\ \A i \in DOMAIN before :
                        before[i].wordId # w => after[i] = before[i]]_vars

-----------------------------------------------------------------------------
\* Two devices whose syncs overlap (SpecRace).
\*
\* Both devices review from empty stores and then each runs one merge sync
\* from the sync button.  Nothing in syncWithGoogleDrive or in the Drive
\* requests it sends ties the upload to the file version that was downloaded,
\* so the requests of the two calls are answered in any order.

InitRace ==
    /\ now = 1
    /\ InitCard
    /\ InitMergeIdle
    /\ InitSessionIdle
    /\ InitImportIdle
    /\ InitDevicesIdle
    /\ drive \in {[folders |-> 0, files |-> <<>>], [folders |-> 1, files |-> <<>>]}
    /\ calls = [d \in Devices |-> [c \in Callers |-> IdleCall]]
    /\ syncs = 0
    /\ faults = 0

NextRace ==
    \/ \E d \in Devices :
          syncs = 0 /\ StartSession(d) /\ UNCHANGED <<sm2vars, mergevars, imported, syncConflicts, reviewedOn, syncvars>>
    \/ \E d \in Devices, wordId \in Words, quality \in SessionQualities :
          syncs = 0 /\ Review(d, wordId, quality) /\ UNCHANGED <<sm2vars, mergevars, imported, syncConflicts, syncvars>>
    \/ \E d \in Devices :
          calls[d]["manual"].pc = "idle" /\ syncs < MaxSyncs /\ StartSync(d, "manual", "merge") /\ UNCHANGED <<sm2vars, mergevars, imported, syncConflicts, reviewedOn>>
    \/ \E d \in Devices :
          RefreshResponse(d, "manual") /\ UNCHANGED <<sm2vars, mergevars, imported, syncConflicts, reviewedOn>>
    \/ \E d \in Devices :
          FolderResponse(d, "manual") /\ UNCHANGED <<sm2vars, mergevars, imported, syncConflicts, reviewedOn>>
    \/ \E d \in Devices :
          MkdirResponse(d, "manual") /\ UNCHANGED <<sm2vars, mergevars, imported, syncConflicts, reviewedOn>>
    \/ \E d \in Devices :
          FileResponse(d, "manual") /\ UNCHANGED <<sm2vars, mergevars, imported, syncConflicts, reviewedOn>>
    \/ \E d \in Devices :
          DownloadResponse(d, "manual") /\ UNCHANGED <<sm2vars, mergevars, imported, syncConflicts, reviewedOn>>
    \/ \E d \in Devices :
          PutResponse(d, "manual") /\ UNCHANGED <<sm2vars, mergevars, imported, syncConflicts, reviewedOn>>

SpecRace == InitRace /\ [][NextRace]_vars

\* The words some device held locally when its sync started.
HeldAtStart ==
    UNION {WordIdsOf(calls[d]["manual"].before.userProgress) : d \in Devices}

\* C21: when the merge syncs of both devices have completed, whatever the order
\* in which their downloads and uploads were answered, the remote file holds a
\* record for every wordId that either device held when its sync started.
C21_RemoteHoldsAll ==
    (\A d \in Devices : calls[d]["manual"].pc = "done")
        => \E i \in DOMAIN drive.files :
              /\ drive.files[i].content.valid
              /\ HeldAtStart \subseteq WordIdsOf(drive.files[i].content.userProgress)

-----------------------------------------------------------------------------
\* Two devices that stop reviewing and then sync in turn (SpecConverge).
\*
\* The devices start as in SpecDevices and rate cards while the clock is at
\* most MaxTime.  After that nobody reviews; the clock is advanced before each
\* sync, so every merge runs at a time later than every review and every
\* earlier merge, and the devices run merge syncs to their end in the order
\* SyncOrder.

SyncOrder == <<"A", "B", "A">>

\* The instant at which the next sync of SyncOrder is started.
SyncTime == MaxTime + syncs + 1

Advance ==
    /\ Quiet
    /\ syncs < Len(SyncOrder)
    /\ now < SyncTime
    /\ now' = SyncTime

NextConverge ==
    \/ syncs = 0 /\ Tick /\ UNCHANGED <<sm2vars, mergevars, imported, syncConflicts, reviewedOn, localStorage, syncvars, session>>
    \/ \E d \in Devices :
          now <= MaxTime /\ StartSession(d) /\ UNCHANGED <<sm2vars, mergevars, imported, syncConflicts, reviewedOn, syncvars>>
    \/ \E d \in Devices, wordId \in Words, quality \in SessionQualities :
          now <= MaxTime /\ Review(d, wordId, quality) /\ UNCHANGED <<sm2vars, mergevars, imported, syncConflicts, syncvars>>
    \/ Advance /\ UNCHANGED <<sm2vars, mergevars, imported, syncConflicts, reviewedOn, localStorage, syncvars, session>>
    \/ /\ Quiet
       /\ syncs < Len(SyncOrder)
       /\ now = SyncTime
       /\ StartSync(SyncOrder[syncs + 1], "manual", "merge")
       /\ UNCHANGED <<sm2vars, mergevars, imported, syncConflicts, reviewedOn>>
    \/ \E d \in Devices :
          RefreshResponse(d, "manual") /\ UNCHANGED <<sm2vars, mergevars, imported, syncConflicts, reviewedOn>>
    \/ \E d \in Devices :
          FolderResponse(d, "manual") /\ UNCHANGED <<sm2vars, mergevars, imported, syncConflicts, reviewedOn>>
    \/ \E d \in Devices :
          MkdirResponse(d, "manual") /\ UNCHANGED <<sm2vars, mergevars, imported, syncConflicts, reviewedOn>>
    \/ \E d \in Devices :
          FileResponse(d, "manual") /\ UNCHANGED <<sm2vars, mergevars, imported, syncConflicts, reviewedOn>>
    \/ \E d \in Devices :
          DownloadResponse(d, "manual") /\ UNCHANGED <<sm2vars, mergevars, imported, syncConflicts, reviewedOn>>
    \/ \E d \in Devices :
          PutResponse(d, "manual") /\ UNCHANGED <<sm2vars, mergevars, imported, syncConflicts, reviewedOn>>

SpecConverge == InitDevices /\ [][NextConverge]_vars

\* The syncs of SyncOrder have all run to their end.
InTurnSynced ==
    /\ syncs = Len(SyncOrder)
    /\ \A d \in Devices : calls[d]["manual"].pc = "done"

\* C22: under one increasing clock, after the devices stopped reviewing and
\* completed merge syncs in the order A, B, A, both devices hold records for
\* the same words, and for every word the two records are equal in
\* easeFactor, repetitions, interval, nextReview, totalSeen, correctCount,
\* accuracy, lastReviewed and masteryLevel.
C22_DevicesAgree ==
    InTurnSynced =>
        LET a == localStorage["A"].userProgress
            b == localStorage["B"].userProgress
        IN  /\ WordIdsOf(a) = WordIdsOf(b)
            /\ \A w \in WordIdsOf(a) :
                  Content(RecordOf(a, w)) = Content(RecordOf(b, w))

\* Both devices rated w1, device B's record of w1 was replaced by its sync,
\* and each device held a word the other did not rate.
C22_Witness ==
    /\ InTurnSynced
    /\ "w1" \in reviewedOn["A"] \cap reviewedOn["B"]
    /\ "w1" \in WordIdsOf(calls["B"]["manual"].before.userProgress)
    /\ Content(RecordOf(calls["B"]["manual"].before.userProgress, "w1"))
          # Content(RecordOf(localStorage["B"].userProgress, "w1"))
    /\ "w2" \in WordIdsOf(localStorage["A"].userProgress)

=============================================================================
